---------------------------- MODULE Spec2Model ----------------------------
(***************************************************************************)
(* A model of the connection-orchestration layer of Ae.Chat:               *)
(*   - ConnectionManager (src/Frontend/src/ConnectionManager.ts): the      *)
(*     registry of PeerConnectors keyed by remote id, and its routing of   *)
(*     inbound envelopes;                                                  *)
(*   - PeerConnector (src/Frontend/src/PeerConnector.ts): the negotiation  *)
(*     state machine around one RTCPeerConnection.                         *)
(* The RTCPeerConnection is the platform's: it is modelled by its WebRTC   *)
(* contract at each place the code calls it.  An asynchronous apply        *)
(* (setRemoteDescription, setLocalDescription) is an in-flight operation   *)
(* of the connector that a later step settles, successfully or not.        *)
(* Strings that the code compares with < (identities) are sequences of     *)
(* UTF-16 code units.                                                      *)
(***************************************************************************)
EXTENDS Integers, Sequences, FiniteSets, TLC

(* ------------------------------ bounds -------------------------------- *)
\* inbound envelopes the relay delivers from outside (Spec)
MaxEnvelopes == 2
\* PeerConnector instances constructed in one run
MaxInst == 2
\* events of the capability and the media capture in one run: negotiation
\* needed, local ICE candidates gathered, state changes, stream changes
MaxEvents == 2
\* candidates in one `candidates` envelope
MaxBatch == 2

(* ---------------------------- identities ------------------------------ *)
\* "100", "150", "200", "300" as UTF-16 code units
Id100 == <<49, 48, 48>>
Id150 == <<49, 53, 48>>
Id200 == <<50, 48, 48>>
Id300 == <<51, 48, 48>>
Ids == {Id100, Id150, Id200, Id300}
\* the attendee id of the one manager of Spec, and who may send to it
LocalId == Id200
Senders == {Id100, Id200, Id300}

\* a buggy comparison: only the first code unit decides
StrLessFirstUnit(a, b) ==
    IF b = <<>> THEN FALSE
    ELSE IF a = <<>> THEN TRUE
    ELSE Head(a) < Head(b)

\* JavaScript's < on two strings: lexicographic on code units, a proper
\* prefix first
RECURSIVE StrLess(_, _)
StrLess(a, b) ==
    IF b = <<>> THEN FALSE
    ELSE IF a = <<>> THEN TRUE
    ELSE IF Head(a) # Head(b) THEN Head(a) < Head(b)
    ELSE StrLess(Tail(a), Tail(b))

(* ------------------------------ values -------------------------------- *)
\* null, for a description that is not set
NullDesc == [type |-> "null", origin |-> "none", n |-> 0]
\* a description the remote side made (an envelope's Data) / the capability made
RemoteDesc(t, k) == [type |-> t, origin |-> "remote", n |-> k]
LocalDesc(t, k) == [type |-> t, origin |-> "local", n |-> k]

\* an ICE candidate; ok: whether the capability can add it once a remote
\* description is present (a malformed candidate is rejected even then)
Candidate(k, good) == [id |-> k, ok |-> good]

\* the tracks of a MediaStream (getTracks()), in order
Tracks(stream) ==
    << [stream |-> stream, kind |-> "audio"], [stream |-> stream, kind |-> "video"] >>

SeqToSet(s) == {s[k] : k \in 1..Len(s)}

OverallStates == {"new", "connecting", "connected", "disconnected", "failed", "closed"}
IceStates ==
    {"new", "checking", "connected", "completed", "disconnected", "failed", "closed"}

\* an outbound effect of a step: broker.Send(data, type, to), or an upward
\* notification type(to, data)
SendEv(data, type, to) == [kind |-> "send", type |-> type, to |-> to, data |-> data]
NotifyEv(name, id, data) == [kind |-> "notify", type |-> name, to |-> id, data |-> data]
ConnectionChange(Type, State) == [Type |-> Type, State |-> State]
\* a promise rejected with nothing to handle it, of the invocation `name`
\* of the connector for `id`
ErrorEv(id, name) == [kind |-> "error", type |-> "unhandledrejection", to |-> id, data |-> name]

NoMsg == [FromId |-> <<>>, Type |-> "none", Data |-> <<>>]
Envelope(from, type, data) == [FromId |-> from, Type |-> type, Data |-> data]

(* ------------------------------- state -------------------------------- *)
VARIABLES
    managers,     \* the attendee ids that run a ConnectionManager
    joined,       \* the managers whose broker is open
    connectors,   \* connectors[me][fromId]: the registered instance, 0 if none
    insts,        \* every PeerConnector constructed so far, by instance number
    localStream,  \* localStream[me]: the stream OnNeedLocalStream returns
    inbox,        \* inbox[me]: envelopes the relay holds for me (SpecMesh)
    nEnv,         \* envelopes delivered from outside so far
    nEvents,      \* capability and media events so far
    lastAct,      \* the step just taken
    out           \* what the step just taken sent and notified, in order

vars == << managers, joined, connectors, insts, localStream, inbox,
           nEnv, nEvents, lastAct, out >>

Act(name, me, inst, msg, ok) ==
    [name |-> name, me |-> me, inst |-> inst, msg |-> msg, ok |-> ok]

(* --------------------------- PeerConnector ---------------------------- *)
\* new PeerConnector(shouldOffer) as CreateConnector(fromId) of manager `me`
\* makes it; owner and remote are what the callbacks wired in
\* CreateConnector close over (this, fromId)
PeerConnector(me, fromId, offers) ==
    [ owner |-> me, remote |-> fromId,
      shouldOffer |-> offers,
      localCandidates |-> <<>>,
      remoteCandidates |-> <<>>,
      rtpSenders |-> <<>>,
      \* the output callbacks that are assigned: none by the constructor
      wired |-> {},
      \* the RTCPeerConnection
      closed |-> FALSE,
      localDescription |-> NullDesc,
      remoteDescription |-> NullDesc,
      signalingState |-> "stable",
      connectionState |-> "new",
      iceConnectionState |-> "new",
      iceGatheringState |-> "new",
      negotiationNeeded |-> FALSE,
      senders |-> {},
      added |-> <<>>,
      created |-> 0,
      gathered |-> 0,
      \* the async invocations in flight, each suspended at an await
      ops |-> {} ]

\* StopLocalStream: removeTrack for every sender ever pushed; the slice()
\* of the last line returns a copy and leaves rtpSenders as it was
StopLocalStream(c) ==
    LET gone == SeqToSet(c.rtpSenders) \cap c.senders
    IN  [c EXCEPT !.senders = @ \ gone,
                  !.negotiationNeeded = @ \/ gone # {}]

StartLocalStream(c, stream) ==
    LET s == StopLocalStream(c)
        tracks == Tracks(stream)
    IN  [s EXCEPT !.rtpSenders = @ \o tracks,
                  !.senders = @ \cup SeqToSet(tracks),
                  !.negotiationNeeded = @ \/ tracks # <<>>]

\* the connector after StartLocalStream(stream) in which a removeTrack or an
\* addTrack of the capability threw: the senders before the throwing
\* removeTrack are removed, or all are and the tracks before the throwing
\* addTrack are added and pushed
StartLocalStreamThrown(c, stream) ==
    LET tracks == Tracks(stream)
        RemovedTo(m) ==
            LET gone == SeqToSet(SubSeq(c.rtpSenders, 1, m)) \cap c.senders
            IN  [c EXCEPT !.senders = @ \ gone,
                          !.negotiationNeeded = @ \/ gone # {}]
        AddedTo(n) ==
            LET s == StopLocalStream(c)
                some == SubSeq(tracks, 1, n)
            IN  [s EXCEPT !.rtpSenders = @ \o some,
                          !.senders = @ \cup SeqToSet(some),
                          !.negotiationNeeded = @ \/ some # <<>>]
    IN  { RemovedTo(m) : m \in 0..(Len(c.rtpSenders) - 1) }
        \cup { AddedTo(n) : n \in 0..(Len(tracks) - 1) }

\* a close() that reopens a closed connection
ShutdownToggle(c) ==
    [c EXCEPT !.closed = ~@,
              !.signalingState = "closed",
              !.connectionState = "closed",
              !.iceConnectionState = "closed"]

\* a close() that closes nothing
ShutdownLeavesOpen(c) == c

\* a close() that leaves the three states as they were
ShutdownKeepsStates(c) == [c EXCEPT !.closed = TRUE]

\* close()
Shutdown(c) ==
    [c EXCEPT !.closed = TRUE,
              !.signalingState = "closed",
              !.connectionState = "closed",
              !.iceConnectionState = "closed"]

\* whether addIceCandidate(candidate) resolves
AddIceCandidateOk(c, candidate) ==
    ~c.closed /\ c.remoteDescription # NullDesc /\ candidate.ok

\* AddRemoteCandidates with a catch that drops the candidate
AddRemoteCandidatesDropping(c, candidates) ==
    LET Taken(x) == AddIceCandidateOk(c, x)
    IN  [c EXCEPT !.added = @ \o SelectSeq(candidates, Taken)]

\* AddRemoteCandidates: each candidate is added, and pushed to
\* remoteCandidates when the add is rejected
AddRemoteCandidates(c, candidates) ==
    LET Taken(x) == AddIceCandidateOk(c, x)
        Refused(x) == ~AddIceCandidateOk(c, x)
    IN  [c EXCEPT !.added = @ \o SelectSeq(candidates, Taken),
                  !.remoteCandidates = @ \o SelectSeq(candidates, Refused)]

\* AcceptOffer up to its first await: setRemoteDescription(offer) is in flight
AcceptOffer(c, offer) ==
    [c EXCEPT !.ops = @ \cup {[kind |-> "AcceptOffer", stage |-> "setRemote", desc |-> offer]}]

\* AcceptAnswer up to its await
AcceptAnswer(c, answer) ==
    [c EXCEPT !.ops = @ \cup {[kind |-> "AcceptAnswer", stage |-> "setRemote", desc |-> answer]}]


\* the flush that leaves the buffer as it is
FlushRemoteCandidatesKeeping(c) ==
    LET Taken(x) == AddIceCandidateOk(c, x)
    IN  [c EXCEPT !.added = @ \o SelectSeq(c.remoteCandidates, Taken)]

\* a flush that awaits each add in turn and is left at the first rejection
FlushRemoteCandidatesStopping(c) ==
    LET Taken(x) == AddIceCandidateOk(c, x)
        Stop == { k \in 1..Len(c.remoteCandidates) : ~Taken(c.remoteCandidates[k]) }
        upTo == IF Stop = {} THEN Len(c.remoteCandidates)
                ELSE (CHOOSE k \in Stop : \A j \in Stop : k <= j) - 1
    IN  [c EXCEPT !.added = @ \o SubSeq(c.remoteCandidates, 1, upTo),
                  !.remoteCandidates = <<>>]

\* what the flush leaves outside the connector: the promise of the async
\* callback of a rejected add is rejected and nothing holds it
FlushRejections(c) ==
    LET Refused(x) == ~AddIceCandidateOk(c, x)
        refused == SelectSeq(c.remoteCandidates, Refused)
    IN  [k \in 1..Len(refused) |-> ErrorEv(c.remote, "addIceCandidate")]

\* the continuation of AcceptOffer after setLocalDescription: every buffered
\* candidate is handed to addIceCandidate in order, nothing awaits or catches
\* the adds, and the buffer is replaced by a new array
FlushRemoteCandidates(c) ==
    LET Taken(x) == AddIceCandidateOk(c, x)
    IN  [c EXCEPT !.added = @ \o SelectSeq(c.remoteCandidates, Taken),
                  !.remoteCandidates = <<>>]

\* whether the capability accepts setRemoteDescription(desc) in its
\* signaling state
CanSetRemote(c, desc) ==
    \/ desc.type = "offer" /\ c.signalingState \in {"stable", "have-remote-offer"}
    \/ desc.type = "answer" /\ c.signalingState = "have-local-offer"

\* a capability that keeps its signaling state when a remote description
\* is set
SetRemoteDescriptionKeepsState(c, desc) ==
    [c EXCEPT !.remoteDescription = desc]

\* a capability that moves its signaling state and drops the description
SetRemoteDescriptionStateOnly(c, desc) ==
    [c EXCEPT !.signalingState = IF desc.type = "offer" THEN "have-remote-offer" ELSE "stable"]

\* the capability after setRemoteDescription(desc) resolved
SetRemoteDescription(c, desc) ==
    [c EXCEPT !.remoteDescription = desc,
              !.signalingState = IF desc.type = "offer" THEN "have-remote-offer" ELSE "stable"]

\* whether createAnswer() and setLocalDescription(answer) go through
CanAnswer(c) == c.signalingState = "have-remote-offer"

\* the type of the description setLocalDescription(null) makes: an answer
\* to a pending remote offer, an offer otherwise
ImplicitType(c) == IF c.signalingState = "have-remote-offer" THEN "answer" ELSE "offer"

\* the capability after setLocalDescription resolved with a description of
\* type t that it created; the ICE agent gathers for it
SetLocalDescription(c, t) ==
    [c EXCEPT !.created = @ + 1,
              !.localDescription = LocalDesc(t, c.created + 1),
              !.signalingState = IF t = "offer" THEN "have-local-offer" ELSE "stable",
              !.iceGatheringState = "gathering"]

\* a rejection that leaves every invocation as an unhandled one
RejectionPropagated(c, op) == << ErrorEv(c.remote, op.kind) >>

\* what the rejection of an awaited apply leaves outside the connector: the
\* onnegotiationneeded handler catches it and logs it, AcceptOffer and
\* AcceptAnswer have no catch and their promise is rejected, which the
\* manager neither awaits nor catches
Rejection(c, op) ==
    IF op.kind = "Negotiate" THEN <<>> ELSE << ErrorEv(c.remote, op.kind) >>

\* connectionState, iceConnectionState or signalingState of the capability
TrackOf(c, Type) ==
    CASE Type = "RTC" -> c.connectionState
      [] Type = "Ice" -> c.iceConnectionState
      [] OTHER -> c.signalingState

\* a handler that passes on the state the event was fired for
HandlerChangeReported(c, Type, reported) == ConnectionChange(Type, reported)

\* the three state handlers: the ConnectionChange carries the dimension of
\* the handler and the state the capability has when the handler runs,
\* whatever transition the event was fired for
HandlerChange(c, Type, reported) == ConnectionChange(Type, TrackOf(c, Type))

\* the guard of the onnegotiationneeded handler
IgnoreNegotiationNeededAlways(c) == FALSE

IgnoreNegotiationNeeded(c) ==
    ~c.shouldOffer /\ c.localDescription = NullDesc /\ c.remoteDescription = NullDesc

\* the onicecandidate handler that keeps the emitted candidates
OnIceCandidateKeeping(c, candidate, isNull) ==
    IF isNull THEN c
    ELSE [c EXCEPT !.localCandidates = Append(@, candidate)]

\* the onicecandidate handler: the connector after the event
OnIceCandidate(c, candidate, isNull) ==
    IF isNull THEN [c EXCEPT !.localCandidates = <<>>]
    ELSE [c EXCEPT !.localCandidates = Append(@, candidate)]

(* ------------------------- ConnectionManager -------------------------- *)
\* the output callbacks of a PeerConnector
Callbacks ==
    {"OnConnectionChanged", "OnHasIceCandidates", "OnHasStreams", "OnHasOffer",
     "OnAcceptedOffer"}

\* a CreateConnector that assigns the state-changed callback only
WireStateOnly(c) == [c EXCEPT !.wired = {"OnConnectionChanged"}]

\* CreateConnector(fromId) between the construction and StartLocalStream:
\* the five callbacks are assigned
Wire(c) == [c EXCEPT !.wired = Callbacks]

\* the callbacks CreateConnector(fromId) wires, fromId being c.remote
OnHasIceCandidates(c, candidates) == SendEv(candidates, "candidates", c.remote)
\* the relay of an offer with a null toId, to the whole room
OnHasOfferBroadcast(c, offer) == SendEv(offer, "offer", <<>>)

OnHasOffer(c, offer) == SendEv(offer, "offer", c.remote)
\* the relay of the description the connector had before AcceptOffer
OnAcceptedOfferStale(c, offer) == SendEv(c.localDescription, "accept", c.remote)

OnAcceptedOffer(c, offer) == SendEv(offer, "accept", c.remote)
\* the forward that reports every change as one of the Overall track
ForwardChangeAsOverall(c, change) ==
    NotifyEv("OnConnectionChanged", c.remote, ConnectionChange("RTC", change.State))

ForwardChange(c, change) == NotifyEv("OnConnectionChanged", c.remote, change)

\* what the onicecandidate handler emits
OnIceCandidateOut(c, isNull) ==
    IF isNull THEN << OnHasIceCandidates(c, c.localCandidates) >> ELSE <<>>

\* a role computed from the first code unit only
ShouldOfferFirstUnit(fromId, attendeeId) == StrLessFirstUnit(fromId, attendeeId)

\* the role that lets every connector offer
ShouldOfferAlways(fromId, attendeeId) == TRUE

\* the role that lets only the first connector of a manager offer
ShouldOfferFirstOnly(fromId, attendeeId) ==
    StrLess(fromId, attendeeId) /\ Len(insts) = 0

\* const shouldOffer = fromId < this.sessionConfig.AttendeeId
ShouldOffer(fromId, attendeeId) == StrLess(fromId, attendeeId)

\* a registry check that never finds the connector
AlreadyRegisteredNever(me, fromId) == FALSE

\* this.connectors.hasOwnProperty(fromId), the guard of CreateConnector
AlreadyRegistered(me, fromId) == connectors[me][fromId] # 0

\* CreateConnector(fromId): every instance after the call, the new one with
\* the local stream started
CreateConnector(me, fromId) ==
    IF AlreadyRegistered(me, fromId) THEN insts
    ELSE Append(insts, StartLocalStream(
                    Wire(PeerConnector(me, fromId, ShouldOffer(fromId, me))), localStream[me]))

\* a CreateConnector that leaves the registry as it is
RegisterNothing(reg, me, fromId, i) == reg

\* this.connectors[fromId] = peerConnector, the last line of CreateConnector
\* (the entry an existing connector already has)
Register(reg, me, fromId, i) == [reg EXCEPT ![me][fromId] = i]

\* a registry with one slot: whatever the id, the first connector made
ConnectorOfFirst(me, fromId) == 1

\* this.connectors[fromId] after CreateConnector(fromId)
ConnectorOf(me, fromId) ==
    IF AlreadyRegistered(me, fromId) THEN connectors[me][fromId] ELSE Len(insts) + 1

\* the cleanup of the OnConnectionChanged callback that clears the registry
TearDownAll(reg, me, fromId, change) ==
    IF change.State = "failed"
    THEN [reg EXCEPT ![me] = [r \in Ids |-> 0]]
    ELSE reg

\* the cleanup that deletes the entry for a failed Overall track only
TearDownOverallOnly(reg, me, fromId, change) ==
    IF change.Type = "RTC" /\ change.State = "failed" /\ reg[me][fromId] # 0
    THEN [reg EXCEPT ![me][fromId] = 0]
    ELSE reg

\* the cleanup that forgets to delete the entry
TearDownKeep(reg, me, fromId, change) == reg

\* the cleanup of the OnConnectionChanged callback, on the registry: delete
\* this.connectors[fromId] (not reached when Shutdown() is called on undefined)
TearDown(reg, me, fromId, change) ==
    IF change.State = "failed" /\ reg[me][fromId] # 0
    THEN [reg EXCEPT ![me][fromId] = 0]
    ELSE reg

\* the cleanup, on the instances: this.connectors[fromId].Shutdown()
TearDownShutdown(all, reg, me, fromId, change) ==
    IF change.State = "failed" /\ reg[me][fromId] # 0
    THEN [all EXCEPT ![reg[me][fromId]] = Shutdown(@)]
    ELSE all

\* the cleanup, when this.connectors[fromId] is undefined: Shutdown() of
\* undefined throws in the callback
TearDownError(reg, me, fromId, change) ==
    IF change.State = "failed" /\ reg[me][fromId] = 0
    THEN << ErrorEv(fromId, "OnConnectionChanged") >>
    ELSE <<>>

\* a decoding that reads the city from the country
ClientLocationSwapped(data) ==
    [ CityName |-> data.countryName, CountryName |-> data.countryName,
      CountryCode |-> data.countryCode, ContinentName |-> data.continentName,
      SubdivisionName |-> data.subdivisionName ]

\* new ClientLocation() filled from message.Data
ClientLocation(data) ==
    [ CityName |-> data.cityName, CountryName |-> data.countryName,
      CountryCode |-> data.countryCode, ContinentName |-> data.continentName,
      SubdivisionName |-> data.subdivisionName ]

\* the dispatch as an else-chain that takes every other envelope as an offer
DispatchElseOffer(c, message) ==
    CASE message.Type = "accept" -> AcceptAnswer(c, message.Data)
      [] message.Type = "candidates" -> AddRemoteCandidates(c, message.Data)
      [] OTHER -> AcceptOffer(c, message.Data)

\* the dispatch that loses the envelope
DispatchDropped(c, message) == c

\* the dispatch of OnMessage on this.connectors[message.FromId]
Dispatch(c, message) ==
    CASE message.Type = "offer" -> AcceptOffer(c, message.Data)
      [] message.Type = "accept" -> AcceptAnswer(c, message.Data)
      [] message.Type = "candidates" -> AddRemoteCandidates(c, message.Data)
      [] OTHER -> c

\* OnMessage without the reply to discover
DispatchOutSilent(message) ==
    CASE message.Type = "location" ->
            << NotifyEv("OnLocation", message.FromId, ClientLocation(message.Data)) >>
      [] OTHER -> <<>>

\* the reply to discover sent with a null toId, to the whole room
DispatchOutBroadcast(message) ==
    CASE message.Type = "location" ->
            << NotifyEv("OnLocation", message.FromId, ClientLocation(message.Data)) >>
      [] message.Type = "discover" ->
            << SendEv(<<>>, "acknowledge", <<>>) >>
      [] OTHER -> <<>>

\* what OnMessage itself sends and notifies
DispatchOut(message) ==
    CASE message.Type = "location" ->
            << NotifyEv("OnLocation", message.FromId, ClientLocation(message.Data)) >>
      [] message.Type = "discover" ->
            << SendEv(<<>>, "acknowledge", message.FromId) >>
      [] OTHER -> <<>>

\* the connectors the model lets the managers make: MaxInst for the one
\* manager of an open room, one per ordered pair of participants in a
\* closed room
InstCap ==
    IF Cardinality(managers) = 1 THEN MaxInst
    ELSE Cardinality(managers) * (Cardinality(managers) - 1)

\* the test that lets the manager's own envelopes through
IsSelfEchoNever(me, message) == FALSE

\* the first test of OnMessage: message.FromId == this.sessionConfig.AttendeeId
IsSelfEcho(me, message) == message.FromId = me

\* OnMessage(message) of manager `me`
OnMessage(me, message) ==
    IF IsSelfEcho(me, message)
    THEN /\ UNCHANGED << connectors, insts >>
         /\ out' = <<>>
         /\ lastAct' = Act("OnMessage", me, 0, message, TRUE)
    ELSE LET made == CreateConnector(me, message.FromId)
             i == ConnectorOf(me, message.FromId)
         IN  /\ Len(made) <= InstCap
             /\ insts' = [made EXCEPT ![i] = Dispatch(made[i], message)]
             /\ connectors' = Register(connectors, me, message.FromId, i)
             /\ out' = DispatchOut(message)
             /\ lastAct' = Act("OnMessage", me, i, message, TRUE)

\* RefreshLocalStream() in which StartLocalStream of the connector `at`
\* throws and leaves it as `left`: the for-in loop has no try, so the
\* connectors enumerated before `at` are refreshed and those after it are
\* not reached (the ids are array indices, which for-in enumerates ascending)
RefreshLocalStreamThrown(all, reg, me, stream, at, left) ==
    [k \in 1..Len(all) |->
        IF k = at THEN left
        ELSE IF /\ reg[me][all[k].remote] = k /\ all[k].owner = me
                /\ StrLess(all[k].remote, all[at].remote)
             THEN StartLocalStream(all[k], stream)
             ELSE all[k]]

\* the refresh that stops after the first registered connector
RefreshLocalStreamFirstOnly(all, reg, me, stream) ==
    [k \in 1..Len(all) |->
        IF /\ reg[me][all[k].remote] = k /\ all[k].owner = me
           /\ \A j \in 1..(k - 1) : ~(reg[me][all[j].remote] = j /\ all[j].owner = me)
        THEN StartLocalStream(all[k], stream)
        ELSE all[k]]

\* RefreshLocalStream(): StartLocalStream on every registered connector
RefreshLocalStream(all, reg, me, stream) ==
    [k \in 1..Len(all) |->
        IF reg[me][all[k].remote] = k /\ all[k].owner = me
        THEN StartLocalStream(all[k], stream)
        ELSE all[k]]

(* ------------------------------- relay -------------------------------- *)
\* toId of a broadcast: broker.Send(payload, type, null)
Broadcast == <<>>

\* Broker.Send of manager `from`, and the relay: the envelope reaches the
\* inbox of its addressee, of every open broker when it is a broadcast, and
\* nobody when the addressee has no open broker
RouteOne(box, from, ev) ==
    [m \in DOMAIN box |->
        IF ev.kind = "send" /\ m \in joined /\ (ev.to = m \/ ev.to = Broadcast)
        THEN Append(box[m], Envelope(from, ev.type, ev.data))
        ELSE box[m]]

RECURSIVE Route(_, _, _)
Route(box, from, events) ==
    IF events = <<>> THEN box
    ELSE Route(RouteOne(box, from, Head(events)), from, Tail(events))

(* ------------------------------ actions ------------------------------- *)
NoInst == 0

Init ==
    /\ managers = {LocalId}
    /\ joined = {LocalId}
    /\ connectors = [m \in {LocalId} |-> [r \in Ids |-> 0]]
    /\ insts = <<>>
    /\ localStream = [m \in {LocalId} |-> 1]
    /\ inbox = [m \in {LocalId} |-> <<>>]
    /\ nEnv = 0 /\ nEvents = 0
    /\ lastAct = Act("Init", <<>>, NoInst, NoMsg, TRUE)
    /\ out = <<>>

\* the `candidates` payloads the k-th envelope can carry: up to MaxBatch
\* well-formed candidates, one malformed candidate, or a malformed candidate
\* followed by a well-formed one
Batches(k) ==
    { [p \in 1..len |-> Candidate(<<k, p>>, TRUE)] : len \in 1..MaxBatch }
    \cup { << Candidate(<<k, 1>>, FALSE) >> }
    \cup { << Candidate(<<k, 1>>, FALSE), Candidate(<<k, 2>>, TRUE) >> }

LocationData ==
    [ cityName |-> "Leeds", countryName |-> "United Kingdom", countryCode |-> "GB",
      continentName |-> "Europe", subdivisionName |-> "England" ]

\* the envelopes the relay can deliver as the k-th one
Payloads(type, k) ==
    CASE type = "offer" -> { RemoteDesc("offer", k) }
      [] type = "accept" -> { RemoteDesc("answer", k) }
      [] type = "candidates" -> Batches(k)
      [] type = "location" -> { LocationData }
      [] type = "bye" -> { RemoteDesc("offer", k) }
      [] OTHER -> { <<>> }

\* the types OnMessage dispatches
KnownTypes == {"offer", "accept", "candidates", "location", "discover"}

\* the types the relay delivers: the known ones, the `acknowledge` replies
\* of the other participants, and a type of no version of the protocol
EnvelopeTypes == KnownTypes \cup {"acknowledge", "bye"}

\* the relay delivers an envelope from outside: broker.OnMessage(message)
Receive(me) ==
    /\ nEnv < MaxEnvelopes
    /\ \E from \in Senders, type \in EnvelopeTypes :
         \E data \in Payloads(type, nEnv + 1) :
            OnMessage(me, Envelope(from, type, data))
    /\ nEnv' = nEnv + 1
    /\ inbox' = Route(inbox, me, out')
    /\ UNCHANGED << managers, joined, localStream, nEvents >>

\* an in-flight setRemoteDescription resolves: the signaling state changes
\* (onsignalingstatechange, forwarded by the manager) and the invocation
\* goes on: AcceptOffer to createAnswer and setLocalDescription, AcceptAnswer
\* to its end
SetRemoteResolves(i) ==
    \E op \in insts[i].ops :
        LET c == insts[i]
            applied == SetRemoteDescription(c, op.desc)
            rest == c.ops \ {op}
            next == IF op.kind = "AcceptOffer"
                    THEN rest \cup {[op EXCEPT !.stage = "setLocal"]}
                    ELSE rest
        IN  /\ ~c.closed
            /\ op.stage = "setRemote"
            /\ CanSetRemote(c, op.desc)
            /\ insts' = [insts EXCEPT ![i] = [applied EXCEPT !.ops = next]]
            /\ out' = IF applied.signalingState # c.signalingState
                      THEN << ForwardChange(c, ConnectionChange("Signal", applied.signalingState)) >>
                      ELSE <<>>
            /\ lastAct' = Act("SetRemoteResolves", c.owner, i,
                              Envelope(c.remote, op.kind, <<>>), TRUE)
            /\ inbox' = Route(inbox, c.owner, out')
            /\ UNCHANGED << managers, joined, connectors, localStream, nEnv, nEvents >>

\* an in-flight apply is rejected: the invocation ends there (the rejection
\* of AcceptOffer and AcceptAnswer is never handled, that of the
\* negotiation-needed handler is caught and logged)
ApplyRejects(i) ==
    \E op \in insts[i].ops :
        LET c == insts[i]
        IN  /\ ~c.closed
            /\ insts' = [insts EXCEPT ![i].ops = @ \ {op}]
            /\ out' = Rejection(c, op)
            /\ lastAct' = Act("ApplyRejects", c.owner, i,
                              Envelope(c.remote, op.kind, <<>>), FALSE)
            /\ inbox' = Route(inbox, c.owner, out')
            /\ UNCHANGED << managers, joined, connectors, localStream, nEnv, nEvents >>

\* AcceptOffer after setLocalDescription(answer) resolved: flush, then
\* this.OnAcceptedOffer(this.connector.localDescription)
AcceptOfferCompletes(i) ==
    \E op \in insts[i].ops :
        LET c == insts[i]
            answered == SetLocalDescription(c, "answer")
            flushed == FlushRemoteCandidates(answered)
        IN  /\ ~c.closed
            /\ op.kind = "AcceptOffer" /\ op.stage = "setLocal"
            /\ CanAnswer(c)
            /\ insts' = [insts EXCEPT ![i] = [flushed EXCEPT !.ops = @ \ {op}]]
            /\ out' = << ForwardChange(c, ConnectionChange("Signal", answered.signalingState)),
                         OnAcceptedOffer(c, flushed.localDescription) >>
                      \o FlushRejections(answered)
            /\ lastAct' = Act("AcceptOfferCompletes", c.owner, i,
                              Envelope(c.remote, op.kind, <<>>), TRUE)
            /\ inbox' = Route(inbox, c.owner, out')
            /\ UNCHANGED << managers, joined, connectors, localStream, nEnv, nEvents >>

\* the capability fires negotiationneeded: the handler returns at once for a
\* connector that should not offer and has no description, and calls
\* setLocalDescription(null) otherwise
NegotiationNeeded(i) ==
    LET c == insts[i]
        fired == [c EXCEPT !.negotiationNeeded = FALSE]
    IN  /\ ~c.closed
        /\ c.negotiationNeeded
        /\ c.signalingState = "stable"
        /\ nEvents < MaxEvents
        /\ nEvents' = nEvents + 1
        /\ insts' = [insts EXCEPT ![i] =
                IF IgnoreNegotiationNeeded(c) THEN fired
                ELSE [fired EXCEPT !.ops = @ \cup
                        {[kind |-> "Negotiate", stage |-> "setLocal", desc |-> NullDesc]}]]
        /\ out' = <<>>
        /\ lastAct' = Act("NegotiationNeeded", c.owner, i, NoMsg, ~IgnoreNegotiationNeeded(c))
        /\ inbox' = Route(inbox, c.owner, out')
        /\ UNCHANGED << managers, joined, connectors, localStream, nEnv >>

\* the handler after setLocalDescription(null) resolved:
\* this.OnHasOffer(this.connector.localDescription)
NegotiationCompletes(i) ==
    \E op \in insts[i].ops :
        LET c == insts[i]
            offered == SetLocalDescription(c, ImplicitType(c))
        IN  /\ ~c.closed
            /\ op.kind = "Negotiate"
            /\ insts' = [insts EXCEPT ![i] = [offered EXCEPT !.ops = @ \ {op}]]
            /\ out' = (IF offered.signalingState # c.signalingState
                       THEN << ForwardChange(c, ConnectionChange("Signal", offered.signalingState)) >>
                       ELSE <<>>)
                      \o << OnHasOffer(c, offered.localDescription) >>
            /\ lastAct' = Act("NegotiationCompletes", c.owner, i, NoMsg, TRUE)
            /\ inbox' = Route(inbox, c.owner, out')
            /\ UNCHANGED << managers, joined, connectors, localStream, nEnv, nEvents >>

\* the capability gathers a local candidate: onicecandidate(candidate)
IceCandidate(i) ==
    LET c == insts[i]
    IN  /\ ~c.closed
        /\ c.iceGatheringState = "gathering"
        /\ nEvents < MaxEvents
        /\ insts' = [insts EXCEPT ![i] =
                        [OnIceCandidate(c, Candidate(<<0, c.gathered + 1>>, TRUE), FALSE)
                            EXCEPT !.gathered = @ + 1]]
        /\ out' = OnIceCandidateOut(c, FALSE)
        /\ nEvents' = nEvents + 1
        /\ lastAct' = Act("IceCandidate", c.owner, i, NoMsg, TRUE)
        /\ inbox' = Route(inbox, c.owner, out')
        /\ UNCHANGED << managers, joined, connectors, localStream, nEnv >>

\* the capability ends gathering: onicecandidate with a null candidate
EndOfCandidates(i) ==
    LET c == insts[i]
    IN  /\ ~c.closed
        /\ c.iceGatheringState = "gathering"
        /\ insts' = [insts EXCEPT ![i] =
                        [OnIceCandidate(c, NullDesc, TRUE) EXCEPT !.iceGatheringState = "complete"]]
        /\ out' = OnIceCandidateOut(c, TRUE)
        /\ lastAct' = Act("EndOfCandidates", c.owner, i, NoMsg, TRUE)
        /\ inbox' = Route(inbox, c.owner, out')
            /\ UNCHANGED << managers, joined, connectors, localStream, nEnv, nEvents >>

\* the states the capability can move to from `state`, on its connection
\* state track (RTC) and on its ICE connection state track (Ice)
NextStates(Type, state) ==
    IF Type = "RTC"
    THEN CASE state = "new" -> {"connecting"}
           [] state = "connecting" -> {"connected", "failed"}
           [] state = "connected" -> {"disconnected", "failed"}
           [] state = "disconnected" -> {"connected", "failed"}
           [] OTHER -> {}
    ELSE CASE state = "new" -> {"checking"}
           [] state = "checking" -> {"connected", "failed"}
           [] state = "connected" -> {"completed", "disconnected"}
           [] state = "completed" -> {"disconnected"}
           [] state = "disconnected" -> {"connected", "failed"}
           [] OTHER -> {}

\* the capability reports a new connection state (Type RTC) or ICE
\* connection state (Type Ice), which leave "new" once both descriptions are
\* set and the ICE agent checks: the connector's handler makes the
\* ConnectionChange, the manager's callback forwards it and cleans up
StateChanges(i) ==
    \E Type \in {"RTC", "Ice"} :
      \E State \in NextStates(Type, IF Type = "RTC" THEN insts[i].connectionState
                                                     ELSE insts[i].iceConnectionState) :
        LET c == insts[i]
            moved == IF Type = "RTC"
                     THEN [insts EXCEPT ![i].connectionState = State]
                     ELSE [insts EXCEPT ![i].iceConnectionState = State]
            change == HandlerChange(moved[i], Type, State)
        IN  /\ ~c.closed
            /\ c.localDescription # NullDesc /\ c.remoteDescription # NullDesc
            /\ nEvents < MaxEvents
            /\ insts' = TearDownShutdown(moved, connectors, c.owner, c.remote, change)
            /\ connectors' = TearDown(connectors, c.owner, c.remote, change)
            /\ out' = << ForwardChange(c, change) >>
            /\ nEvents' = nEvents + 1
            /\ lastAct' = Act("StateChanges", c.owner, i,
                              Envelope(c.remote, Type, State), TRUE)
            /\ inbox' = Route(inbox, c.owner, out')
            /\ UNCHANGED << managers, joined, localStream, nEnv >>

\* the media capture has a new stream: ChatApp keeps it and calls
\* RefreshLocalStream()
StreamChanges(me) ==
    /\ nEvents < MaxEvents
    /\ localStream' = [localStream EXCEPT ![me] = @ + 1]
    /\ insts' = RefreshLocalStream(insts, connectors, me, localStream[me] + 1)
    /\ nEvents' = nEvents + 1
    /\ out' = <<>>
    /\ lastAct' = Act("StreamChanges", me, NoInst, NoMsg, TRUE)
    /\ inbox' = Route(inbox, me, out')
    /\ UNCHANGED << managers, joined, connectors, nEnv >>

\* the media capture has a new stream and, during RefreshLocalStream(), the
\* capability of one registered connector throws in StartLocalStream: the
\* exception leaves RefreshLocalStream and the callback of ChatApp
RefreshThrows(me) ==
    /\ nEvents < MaxEvents
    /\ localStream' = [localStream EXCEPT ![me] = @ + 1]
    /\ \E at \in 1..Len(insts) :
         /\ insts[at].owner = me /\ connectors[me][insts[at].remote] = at
         /\ \E left \in StartLocalStreamThrown(insts[at], localStream[me] + 1) :
               insts' = RefreshLocalStreamThrown(insts, connectors, me,
                                                 localStream[me] + 1, at, left)
         /\ lastAct' = Act("RefreshThrows", me, at, NoMsg, FALSE)
    /\ nEvents' = nEvents + 1
    /\ out' = <<>>
    /\ inbox' = Route(inbox, me, out')
    /\ UNCHANGED << managers, joined, connectors, nEnv >>

\* one manager, LocalId, and a relay that can deliver any envelope to it;
\* what the manager sends is addressed to participants outside the model
Next ==
    \/ \E me \in managers : Receive(me)
    \/ \E me \in joined : StreamChanges(me)
    \/ \E i \in 1..Len(insts) : SetRemoteResolves(i)
    \/ \E i \in 1..Len(insts) : ApplyRejects(i)
    \/ \E i \in 1..Len(insts) : AcceptOfferCompletes(i)
    \/ \E i \in 1..Len(insts) : NegotiationNeeded(i)
    \/ \E i \in 1..Len(insts) : NegotiationCompletes(i)
    \/ \E i \in 1..Len(insts) : IceCandidate(i)
    \/ \E i \in 1..Len(insts) : EndOfCandidates(i)
    \/ \E i \in 1..Len(insts) : StateChanges(i)

Spec == Init /\ [][Next]_vars

\* the capability settles what it can settle: an apply that its signaling
\* state admits does not stay pending for ever (it resolves, or is rejected)
Settles(i) ==
    /\ WF_vars(i \in 1..Len(insts) /\ SetRemoteResolves(i))
    /\ WF_vars(i \in 1..Len(insts) /\ AcceptOfferCompletes(i))
    /\ WF_vars(i \in 1..Len(insts) /\ NegotiationCompletes(i))

SpecFair == Init /\ [][Next]_vars /\ \A i \in 1..MaxInst : Settles(i)

\* the relay delivers an envelope of a remote id with no registered
\* connector and StartLocalStream throws in CreateConnector: the connector is
\* constructed and wired, the exception leaves CreateConnector before the
\* registration and leaves OnMessage before the dispatch
CreateThrows(me) ==
    /\ nEnv < MaxEnvelopes
    /\ Len(insts) < InstCap
    /\ \E from \in Senders, type \in EnvelopeTypes :
         \E data \in Payloads(type, nEnv + 1) :
            LET message == Envelope(from, type, data)
                made == Wire(PeerConnector(me, from, ShouldOffer(from, me)))
            IN  /\ ~IsSelfEcho(me, message)
                /\ ~AlreadyRegistered(me, from)
                /\ \E left \in StartLocalStreamThrown(made, localStream[me]) :
                        insts' = Append(insts, left)
                /\ out' = << ErrorEv(from, "OnMessage") >>
                /\ lastAct' = Act("CreateThrows", me, Len(insts) + 1, message, FALSE)
    /\ nEnv' = nEnv + 1
    /\ inbox' = Route(inbox, me, out')
    /\ UNCHANGED << managers, joined, connectors, localStream, nEvents >>

\* the same manager with connectors whose StartLocalStream can throw
NextThrowing ==
    \/ \E me \in managers : Receive(me)
    \/ \E me \in managers : CreateThrows(me)
    \/ \E me \in joined : StreamChanges(me)
    \/ \E me \in joined : RefreshThrows(me)
    \/ \E i \in 1..Len(insts) : SetRemoteResolves(i)
    \/ \E i \in 1..Len(insts) : ApplyRejects(i)
    \/ \E i \in 1..Len(insts) : AcceptOfferCompletes(i)
    \/ \E i \in 1..Len(insts) : NegotiationNeeded(i)
    \/ \E i \in 1..Len(insts) : NegotiationCompletes(i)
    \/ \E i \in 1..Len(insts) : IceCandidate(i)
    \/ \E i \in 1..Len(insts) : EndOfCandidates(i)
    \/ \E i \in 1..Len(insts) : StateChanges(i)

SpecThrowing == Init /\ [][NextThrowing]_vars

\* the states an event of a closed connection can have been fired for: the
\* failure of the other track, fired in the same turn as the first, or
\* the closing itself
StaleReports(Type) == IF Type = "Signal" THEN {"closed"} ELSE {"failed", "closed"}

\* a state event of a connection that was closed reaches its handler (the
\* second event of the turn that reported the failure, or an event a
\* capability fires for close()): the handler makes the ConnectionChange
\* and the callback CreateConnector wired for c.remote forwards it and
\* cleans up whatever is registered under c.remote now
StaleStateChange(i) ==
    \E Type \in {"RTC", "Ice", "Signal"} :
      \E reported \in StaleReports(Type) :
        LET c == insts[i]
            change == HandlerChange(c, Type, reported)
        IN  /\ c.closed
            /\ insts' = TearDownShutdown(insts, connectors, c.owner, c.remote, change)
            /\ connectors' = TearDown(connectors, c.owner, c.remote, change)
            /\ out' = << ForwardChange(c, change) >>
                      \o TearDownError(connectors, c.owner, c.remote, change)
            /\ lastAct' = Act("StaleStateChange", c.owner, i,
                              Envelope(c.remote, Type, reported),
                              TearDownError(connectors, c.owner, c.remote, change) = <<>>)
            /\ inbox' = Route(inbox, c.owner, out')
            /\ UNCHANGED << managers, joined, localStream, nEnv, nEvents >>

\* the same manager with a capability whose closed connections still
\* deliver state events
NextStale ==
    \/ Next
    \/ \E i \in 1..Len(insts) : StaleStateChange(i)

SpecStale == Init /\ [][NextStale]_vars

(* ------------------------------- mesh --------------------------------- *)
\* participants of the room in SpecMesh
MeshSize == 2

\* MeshSize participants with any identities, none started yet
MeshInit ==
    /\ managers \in { S \in SUBSET Ids : Cardinality(S) = MeshSize }
    /\ joined = {}
    /\ connectors = [m \in managers |-> [r \in Ids |-> 0]]
    /\ insts = <<>>
    /\ localStream = [m \in managers |-> 1]
    /\ inbox = [m \in managers |-> <<>>]
    /\ nEnv = 0 /\ nEvents = 0
    /\ lastAct = Act("Init", <<>>, NoInst, NoMsg, TRUE)
    /\ out = <<>>

\* ChatApp.Start of participant `me`: the broker opens and `discover` is
\* broadcast
Join(me) ==
    /\ me \notin joined
    /\ joined' = joined \cup {me}
    /\ out' = << SendEv(<<>>, "discover", Broadcast) >>
    /\ inbox' = Route(inbox, me, out')
    /\ lastAct' = Act("Join", me, NoInst, NoMsg, TRUE)
    /\ UNCHANGED << managers, connectors, insts, localStream, nEnv, nEvents >>

\* the relay delivers the next envelope it holds for `me`
Deliver(me) ==
    /\ inbox[me] # <<>>
    /\ OnMessage(me, Head(inbox[me]))
    /\ inbox' = Route([inbox EXCEPT ![me] = Tail(@)], me, out')
    /\ UNCHANGED << managers, joined, localStream, nEnv, nEvents >>

\* every participant runs a manager; the relay carries what they send
MeshNext ==
    \/ \E me \in managers : Join(me)
    \/ \E me \in joined : Deliver(me)
    \/ \E me \in joined : StreamChanges(me)
    \/ \E i \in 1..Len(insts) : SetRemoteResolves(i)
    \/ \E i \in 1..Len(insts) : ApplyRejects(i)
    \/ \E i \in 1..Len(insts) : AcceptOfferCompletes(i)
    \/ \E i \in 1..Len(insts) : NegotiationNeeded(i)
    \/ \E i \in 1..Len(insts) : NegotiationCompletes(i)
    \/ \E i \in 1..Len(insts) : IceCandidate(i)
    \/ \E i \in 1..Len(insts) : EndOfCandidates(i)
    \/ \E i \in 1..Len(insts) : StateChanges(i)

SpecMesh == MeshInit /\ [][MeshNext]_vars

RoomSize == 3

\* RoomSize participants with any identities, none started yet
RoomInit ==
    /\ managers \in { S \in SUBSET Ids : Cardinality(S) = RoomSize }
    /\ joined = {}
    /\ connectors = [m \in managers |-> [r \in Ids |-> 0]]
    /\ insts = <<>>
    /\ localStream = [m \in managers |-> 1]
    /\ inbox = [m \in managers |-> <<>>]
    /\ nEnv = 0 /\ nEvents = 0
    /\ lastAct = Act("Init", <<>>, NoInst, NoMsg, TRUE)
    /\ out = <<>>

\* a room in which the participants start one after the other and the
\* capabilities negotiate without failure
RoomNext ==
    \/ \E me \in managers : Join(me)
    \/ \E me \in joined : Deliver(me)
    \/ \E i \in 1..Len(insts) : NegotiationNeeded(i)
    \/ \E i \in 1..Len(insts) : NegotiationCompletes(i)
    \/ \E i \in 1..Len(insts) : SetRemoteResolves(i)
    \/ \E i \in 1..Len(insts) : AcceptOfferCompletes(i)

SpecRoom == RoomInit /\ [][RoomNext]_vars

(* ------------------------------ claims -------------------------------- *)
Insts == 1..Len(insts)

\* the sends of type `type` among the events of a step
SendsOf(events, type) ==
    SelectSeq(events, LAMBDA e : e.kind = "send" /\ e.type = type)

WellFormed(x) == x.ok

\* C1: for two distinct identities A and B, the role A's manager computes
\* for its connector to B and the role B's manager computes for its
\* connector to A are opposite: one offers, the other answers.
C1_OppositeRoles ==
    \A p \in managers, q \in managers :
        (p # q /\ connectors[p][q] # 0 /\ connectors[q][p] # 0) =>
            insts[connectors[p][q]].shouldOffer # insts[connectors[q][p]].shouldOffer

\* both managers of a pair have a connector to each other
C1_Witness ==
    \E p \in managers, q \in managers :
        p # q /\ connectors[p][q] # 0 /\ connectors[q][p] # 0

\* the connectors of manager me for remote id r that are not shut down
Open(me, r) ==
    { i \in Insts : insts[i].owner = me /\ insts[i].remote = r /\ ~insts[i].closed }

\* C2: after any sequence of inbound envelopes, state-change callbacks and
\* RefreshLocalStream calls a manager holds at most one PeerConnector per
\* remote id: of the connectors constructed for a remote id at most one is
\* not shut down, and it is the registered one; so an envelope from a remote
\* id that has a registered connector has constructed no second one.
C2_OnePerRemoteId ==
    \A me \in managers, r \in Ids :
        /\ Cardinality(Open(me, r)) <= 1
        /\ \A i \in Open(me, r) : connectors[me][r] = i

\* a second envelope from a remote id whose connector is registered has
\* been handled
C2_Witness ==
    /\ lastAct.name = "OnMessage"
    /\ nEnv = 2
    /\ Len(insts) = 1
    /\ connectors[lastAct.me][lastAct.msg.FromId] = 1
    /\ insts[1].ops # {}

\* the step is the manager's callback for the change of `Type` to "failed"
FailedStep(Type) ==
    /\ lastAct'.name = "StateChanges"
    /\ lastAct'.msg.Type = Type
    /\ lastAct'.msg.Data = "failed"

\* the step is OnMessage for an envelope of a remote id with no registered
\* connector
CreatingStep ==
    /\ lastAct'.name = "OnMessage"
    /\ lastAct'.msg.FromId # lastAct'.me
    /\ connectors[lastAct'.me][lastAct'.msg.FromId] = 0

\* C3: when the Overall state of a registered connector reaches Failed the
\* manager shuts it down and removes its entry; the next envelope from that
\* remote id, whatever its Type, makes a new connector that is registered,
\* has empty candidate buffers (a `candidates` envelope then buffers its own
\* candidates), no description, no in-flight state and the initial state on
\* every track: nothing of the removed connector.
C3_FailedThenFresh ==
    [][ /\ FailedStep("RTC") =>
            /\ insts'[lastAct'.inst].closed
            /\ connectors'[lastAct'.me][lastAct'.msg.FromId] = 0
        /\ CreatingStep =>
            LET me == lastAct'.me
                msg == lastAct'.msg
                new == insts'[Len(insts')]
            IN  /\ Len(insts') = Len(insts) + 1
                /\ connectors'[me][msg.FromId] = Len(insts')
                /\ \A k \in Insts : insts'[k] = insts[k]
                /\ ~new.closed
                /\ new.localCandidates = <<>>
                /\ new.remoteCandidates =
                        (IF msg.Type = "candidates" THEN msg.Data ELSE <<>>)
                /\ new.added = <<>>
                /\ new.localDescription = NullDesc
                /\ new.remoteDescription = NullDesc
                /\ new.signalingState = "stable"
                /\ new.connectionState = "new"
                /\ new.iceConnectionState = "new"
                /\ new.iceGatheringState = "new"
                /\ new.senders = SeqToSet(Tracks(localStream[me]))
                /\ new.ops = (IF msg.Type \in {"offer", "accept"}
                              THEN {[kind |-> (IF msg.Type = "offer" THEN "AcceptOffer"
                                               ELSE "AcceptAnswer"),
                                     stage |-> "setRemote", desc |-> msg.Data]}
                              ELSE {})
      ]_vars

\* an envelope has made a new connector for a remote id whose earlier
\* connector, with both descriptions set, was shut down and removed
C3_Witness ==
    /\ lastAct.name = "OnMessage"
    /\ Len(insts) = 2
    /\ insts[1].closed /\ insts[1].remote = insts[2].remote
    /\ insts[1].localDescription # NullDesc /\ insts[1].remoteDescription # NullDesc
    /\ connectors[lastAct.me][insts[2].remote] = 2
    /\ lastAct.inst = 2

\* C4: the teardown of the connector of one remote id after it reports
\* Failed leaves every other registry entry and every other connector as it
\* was, and notifies nothing about any other remote id.
C4_TeardownIsolated ==
    [][ (FailedStep("RTC") \/ FailedStep("Ice")) =>
            LET me == lastAct'.me
                r == lastAct'.msg.FromId
            IN  /\ \A q \in Ids \ {r} : connectors'[me][q] = connectors[me][q]
                /\ Len(insts') = Len(insts)
                /\ \A k \in Insts \ {lastAct'.inst} : insts'[k] = insts[k]
                /\ \A e \in 1..Len(out') : out'[e].to = r
      ]_vars

\* a connector was torn down while the connector of another remote id was
\* registered, with an operation in flight
C4_Witness ==
    /\ lastAct.name = "StateChanges"
    /\ lastAct.msg.Data = "failed"
    /\ \E q \in Ids \ {lastAct.msg.FromId} :
            /\ connectors[lastAct.me][q] # 0
            /\ insts[connectors[lastAct.me][q]].ops # {}

\* the step is OnMessage of a `candidates` envelope for a connector, made by
\* this envelope or registered before, that has no remote description
BufferingStep ==
    /\ lastAct'.name = "OnMessage"
    /\ lastAct'.msg.Type = "candidates"
    /\ lastAct'.inst # NoInst
    /\ lastAct'.inst \in Insts => insts[lastAct'.inst].remoteDescription = NullDesc

\* remoteCandidates of connector i before the step, empty for one the step makes
BufferBefore(i) == IF i \in Insts THEN insts[i].remoteCandidates ELSE <<>>

\* C5: remote candidates passed to AddRemoteCandidates while the connector
\* has no remote description are appended to remoteCandidates in the order
\* received; when AcceptOffer has applied the remote description and the
\* answer, every buffered candidate is handed to the capability in that
\* order (the capability takes the well-formed ones) and the buffer is empty.
C5_BufferedThenFlushedInOrder ==
    [][ /\ BufferingStep =>
            LET i == lastAct'.inst
            IN  /\ insts'[i].remoteCandidates = BufferBefore(i) \o lastAct'.msg.Data
                /\ insts'[i].added = <<>>
        /\ lastAct'.name = "AcceptOfferCompletes" =>
            LET i == lastAct'.inst
            IN  /\ insts'[i].added =
                        insts[i].added \o SelectSeq(insts[i].remoteCandidates, WellFormed)
                /\ insts'[i].remoteCandidates = <<>>
                /\ insts'[i].remoteDescription # NullDesc
      ]_vars

\* AcceptOffer has flushed a buffer of two candidates that were received
\* before the offer, in the order they were received
C5_Witness ==
    /\ lastAct.name = "AcceptOfferCompletes"
    /\ LET c == insts[lastAct.inst]
       IN  /\ Len(c.added) = 2
           /\ c.added[1].id[1] = c.added[2].id[1]
           /\ c.added[1].id[2] < c.added[2].id[2]
           /\ c.added[1].id[1] < c.remoteDescription.n
           /\ c.remoteCandidates = <<>>

\* C6: in every state in which no operation of a connector is in flight, a
\* connector with a remote description applied has an empty
\* remoteCandidates buffer.
C6_QuiescentBufferEmpty ==
    \A i \in Insts :
        (~insts[i].closed /\ insts[i].ops = {} /\ insts[i].remoteDescription # NullDesc)
            => insts[i].remoteCandidates = <<>>

\* C7: when AcceptAnswer applies the remote description on a connector whose
\* remoteCandidates buffer holds candidates received earlier, those
\* candidates are handed to the capability in receipt order and the buffer
\* is cleared, as AcceptOffer does.
C7_AcceptAnswerFlushes ==
    [][ (lastAct'.name = "SetRemoteResolves" /\ lastAct'.msg.Type = "AcceptAnswer") =>
            LET i == lastAct'.inst
            IN  /\ insts'[i].added =
                        insts[i].added \o SelectSeq(insts[i].remoteCandidates, WellFormed)
                /\ insts'[i].remoteCandidates = <<>>
      ]_vars

\* the candidates gathered by connector c since its last flush: those
\* numbered gathered - n + 1 .. gathered, in gathering order
GatheredSinceFlush(c, n) ==
    [k \in 1..n |-> Candidate(<<0, c.gathered - n + k>>, TRUE)]

\* C8: locally gathered candidates accumulate in localCandidates in
\* gathering order; each end-of-gathering signal emits candidates-ready once,
\* with one batch holding exactly the candidates gathered since the previous
\* flush, and leaves the buffer empty; no other step touches the buffer or
\* emits a batch, so no candidate is in two batches and an emitted batch
\* never changes.
C8_LocalBatches ==
    [][ /\ \A i \in 1..Len(insts') :
            insts'[i].localCandidates =
                GatheredSinceFlush(insts'[i], Len(insts'[i].localCandidates))
        /\ lastAct'.name = "IceCandidate" =>
            LET i == lastAct'.inst
            IN  /\ insts'[i].gathered = insts[i].gathered + 1
                /\ Len(insts'[i].localCandidates) = Len(insts[i].localCandidates) + 1
                /\ SendsOf(out', "candidates") = <<>>
        /\ lastAct'.name = "EndOfCandidates" =>
            LET i == lastAct'.inst
            IN  /\ out' = << SendEv(insts[i].localCandidates, "candidates", insts[i].remote) >>
                /\ insts'[i].localCandidates = <<>>
                /\ insts'[i].gathered = insts[i].gathered
        /\ lastAct'.name \notin {"IceCandidate", "EndOfCandidates"} =>
            /\ SendsOf(out', "candidates") = <<>>
            /\ \A i \in Insts :
                /\ insts'[i].localCandidates = insts[i].localCandidates
                /\ insts'[i].gathered = insts[i].gathered
      ]_vars

\* a second end-of-gathering signal has emitted a batch holding only the
\* candidate gathered after the first batch was emitted
C8_Witness ==
    /\ lastAct.name = "EndOfCandidates"
    /\ insts[lastAct.inst].gathered = 2
    /\ insts[lastAct.inst].localCandidates = <<>>
    /\ out = << SendEv(<< Candidate(<<0, 2>>, TRUE) >>, "candidates",
                       insts[lastAct.inst].remote) >>

\* the step ends an invocation of AcceptOffer: its last apply resolved, or
\* one of its applies was rejected
AcceptOfferEnds ==
    \/ lastAct'.name = "AcceptOfferCompletes"
    \/ lastAct'.name = "ApplyRejects" /\ lastAct'.msg.Type = "AcceptOffer"

\* C9 as stated: every invocation of AcceptOffer results in exactly one
\* accepted-offer-ready emission, carrying the local answer created and
\* applied during that invocation.
C9_EveryAcceptOfferEmits ==
    [][ AcceptOfferEnds =>
            SendsOf(out', "accept") =
                << SendEv(insts'[lastAct'.inst].localDescription, "accept",
                          insts'[lastAct'.inst].remote) >>
      ]_vars

\* C9: an invocation of AcceptOffer whose remote description and local
\* answer are both applied emits accepted-offer-ready exactly once, carrying
\* the local answer created and applied in that invocation; an invocation in
\* which an apply is rejected emits none, and no other step emits one.
C9_CompletedAcceptOfferEmits ==
    [][ /\ lastAct'.name = "AcceptOfferCompletes" =>
            LET i == lastAct'.inst
                answer == LocalDesc("answer", insts[i].created + 1)
            IN  /\ insts'[i].localDescription = answer
                /\ insts[i].localDescription # answer
                /\ insts'[i].remoteDescription # NullDesc
                /\ SendsOf(out', "accept") = << SendEv(answer, "accept", insts[i].remote) >>
        /\ lastAct'.name # "AcceptOfferCompletes" => SendsOf(out', "accept") = <<>>
      ]_vars

\* a second AcceptOffer on a connector has completed and relayed its own
\* answer, the second description the connector made
C9_Witness ==
    /\ lastAct.name = "AcceptOfferCompletes"
    /\ insts[lastAct.inst].created = 2
    /\ SendsOf(out, "accept") =
            << SendEv(LocalDesc("answer", 2), "accept", insts[lastAct.inst].remote) >>

\* connector c should not offer and has neither description
AnswererWithoutDescription(c) ==
    ~c.shouldOffer /\ c.localDescription = NullDesc /\ c.remoteDescription = NullDesc

\* C10: a connector that should not offer emits no offer-ready, and has no
\* offer in the making, while it has neither a local nor a remote
\* description; a negotiation-needed trigger in that state changes nothing
\* of the connector, of the registry or of any other connector.
C10_AnswererNeverOffersFirst ==
    [][ /\ \A i \in 1..Len(insts') :
            AnswererWithoutDescription(insts'[i]) =>
                \A op \in insts'[i].ops : op.kind # "Negotiate"
        /\ \A i \in Insts :
            (AnswererWithoutDescription(insts[i]) /\ insts[i].owner = lastAct'.me) =>
                \A e \in 1..Len(out') :
                    ~(out'[e].kind = "send" /\ out'[e].type = "offer"
                        /\ out'[e].to = insts[i].remote)
        /\ \A i \in Insts :
            (AnswererWithoutDescription(insts[i])
                /\ lastAct'.name = "NegotiationNeeded" /\ lastAct'.inst = i) =>
                    /\ insts' = [insts EXCEPT ![i].negotiationNeeded = FALSE]
                    /\ connectors' = connectors
                    /\ out' = <<>>
                    /\ ~lastAct'.ok
      ]_vars

\* negotiation-needed fired on a connector that should not offer and has no
\* description, with tracks attached to it
C10_Witness ==
    /\ lastAct.name = "NegotiationNeeded"
    /\ AnswererWithoutDescription(insts[lastAct.inst])
    /\ insts[lastAct.inst].senders # {}
    /\ ~insts[lastAct.inst].negotiationNeeded

\* the role of connector c: the one that originates the offer, or the one
\* that waits for it
Role(c) == IF c.shouldOffer THEN "Offerer" ELSE "Answerer"

\* C11: every connector is made with Role = Answerer when its remote id
\* precedes the local AttendeeId in the identity order and Role = Offerer
\* otherwise; so the connector a manager with local id "200" makes for
\* "100" is an Answerer.
C11_RemotePrecedesIsAnswerer ==
    \A i \in Insts :
        Role(insts[i]) = (IF StrLess(insts[i].remote, insts[i].owner)
                          THEN "Answerer" ELSE "Offerer")

\* the connector CreateConnector(fromId) of manager me registers, before
\* anything is dispatched to it
Created(me, fromId) ==
    StartLocalStream(Wire(PeerConnector(me, fromId, ShouldOffer(fromId, me))), localStream[me])

\* C12: the first envelope from a remote id with no registered connector,
\* and not from the local id, makes and registers a connector for it
\* whatever its Type, and the envelope is dispatched to that connector after
\* it was made: an offer starts AcceptOffer on it, an accept AcceptAnswer,
\* and the candidates of a `candidates` envelope are buffered on it, as it
\* has no remote description.
C12_CreatedThenDispatched ==
    [][ CreatingStep =>
            LET me == lastAct'.me
                msg == lastAct'.msg
                new == Len(insts) + 1
                made == Created(me, msg.FromId)
            IN  /\ Len(insts') = new
                /\ lastAct'.inst = new
                /\ connectors' = [connectors EXCEPT ![me][msg.FromId] = new]
                /\ insts'[new].owner = me /\ insts'[new].remote = msg.FromId
                /\ insts'[new] =
                     CASE msg.Type = "offer" -> AcceptOffer(made, msg.Data)
                       [] msg.Type = "accept" -> AcceptAnswer(made, msg.Data)
                       [] msg.Type = "candidates" ->
                            [made EXCEPT !.remoteCandidates = msg.Data]
                       [] OTHER -> made
      ]_vars

\* the first envelope of a remote id was a `candidates` envelope of two
\* candidates: its connector is registered and holds them in its buffer
C12_Witness ==
    /\ lastAct.name = "OnMessage"
    /\ lastAct.msg.Type = "candidates"
    /\ nEnv = 1 /\ Len(insts) = 1
    /\ connectors[lastAct.me][lastAct.msg.FromId] = 1
    /\ Len(insts[1].remoteCandidates) = 2
    /\ insts[1].remoteCandidates = lastAct.msg.Data
    /\ insts[1].remoteDescription = NullDesc

\* C13: OnMessage on an envelope whose FromId is the local AttendeeId
\* changes nothing, whatever the envelope's Type: no connector is made, no
\* connector is touched, the registry and the local stream are as before,
\* and nothing is sent or notified.
C13_SelfEchoIgnored ==
    [][ (lastAct'.name = "OnMessage" /\ lastAct'.msg.FromId = lastAct'.me) =>
            /\ insts' = insts
            /\ connectors' = connectors
            /\ localStream' = localStream
            /\ inbox' = inbox
            /\ out' = <<>>
            /\ lastAct'.inst = NoInst
      ]_vars

\* the manager has handled an offer that carries its own id while it had a
\* registered connector with nothing in flight
C13_Witness ==
    /\ lastAct.name = "OnMessage"
    /\ lastAct.msg.FromId = lastAct.me
    /\ lastAct.msg.Type = "offer"
    /\ Len(insts) = 1
    /\ insts[1].ops = {}
    /\ connectors[lastAct.me][lastAct.me] = 0

\* the step is OnMessage of a `discover` envelope of another participant
DiscoverStep ==
    /\ lastAct'.name = "OnMessage"
    /\ lastAct'.msg.Type = "discover"
    /\ lastAct'.msg.FromId # lastAct'.me

\* C14: handling a `discover` envelope sends exactly one `acknowledge`
\* envelope addressed to the sender and invokes no AcceptOffer, AcceptAnswer
\* or AddRemoteCandidates; a connector registered for the sender, and every
\* other connector, is unchanged; when the sender has no registered
\* connector the one made for it (C12) has nothing dispatched to it.
C14_DiscoverAcknowledged ==
    [][ DiscoverStep =>
            LET me == lastAct'.me
                from == lastAct'.msg.FromId
            IN  /\ out' = << SendEv(<<>>, "acknowledge", from) >>
                /\ \A k \in Insts : insts'[k] = insts[k]
                /\ connectors[me][from] # 0 =>
                        insts' = insts /\ connectors' = connectors
                /\ connectors[me][from] = 0 =>
                        /\ insts' = Append(insts, Created(me, from))
                        /\ insts'[Len(insts')].ops = {}
                        /\ connectors' = [connectors EXCEPT ![me][from] = Len(insts')]
      ]_vars

\* a `discover` envelope was acknowledged while the sender's connector had a
\* remote description applied and an operation in flight
C14_Witness ==
    /\ lastAct.name = "OnMessage"
    /\ lastAct.msg.Type = "discover"
    /\ lastAct.inst # NoInst
    /\ nEnv = 2 /\ Len(insts) = 1
    /\ insts[1].remoteDescription # NullDesc
    /\ insts[1].ops # {}
    /\ out = << SendEv(<<>>, "acknowledge", insts[1].remote) >>

\* the connectors registered at manager me
Registered(me) ==
    { k \in Insts : insts[k].owner = me /\ connectors[me][insts[k].remote] = k }

\* C15: RefreshLocalStream with N registered connectors calls
\* StartLocalStream(stream) on each of the N exactly once, so each sends the
\* tracks of the new stream; no connector is made or removed, nothing is
\* sent, and with an empty registry no state changes.
C15_RefreshReachesAll ==
    [][ lastAct'.name = "StreamChanges" =>
            LET me == lastAct'.me
                stream == localStream'[me]
            IN  /\ Len(insts') = Len(insts)
                /\ connectors' = connectors
                /\ out' = <<>>
                /\ \A k \in Registered(me) :
                    /\ insts'[k] = StartLocalStream(insts[k], stream)
                    /\ insts'[k].senders = SeqToSet(Tracks(stream))
                /\ \A k \in Insts \ Registered(me) : insts'[k] = insts[k]
                /\ Registered(me) = {} => insts' = insts
      ]_vars

\* the stream was refreshed with two connectors registered: both send the
\* tracks of the new stream
C15_Witness ==
    /\ lastAct.name = "StreamChanges"
    /\ Len(insts) = 2
    /\ Registered(lastAct.me) = {1, 2}
    /\ \A k \in {1, 2} : insts[k].senders = SeqToSet(Tracks(localStream[lastAct.me]))

\* C16: when StartLocalStream fails on one connector during
\* RefreshLocalStream, the replacement is still attempted on every other
\* registered connector: each of them is as StartLocalStream leaves it.
C16_FailureDoesNotStopRefresh ==
    [][ lastAct'.name = "RefreshThrows" =>
            \A k \in Registered(lastAct'.me) \ {lastAct'.inst} :
                insts'[k] = StartLocalStream(insts[k], localStream'[lastAct'.me])
      ]_vars

\* the upward notifications named `name` among events
NotificationsOf(events, name) ==
    SelectSeq(events, LAMBDA e : e.kind = "notify" /\ e.type = name)

\* C17: when the Overall state of a connector reaches Failed, the manager
\* shuts the connector down, removes it from the registry and emits
\* OnClientDisconnect(remoteId) upward, once.
C17_FailedEmitsDisconnect ==
    [][ FailedStep("RTC") =>
            LET me == lastAct'.me
                r == lastAct'.msg.FromId
                told == NotificationsOf(out', "OnClientDisconnect")
            IN  /\ insts'[lastAct'.inst].closed
                /\ connectors'[me][r] = 0
                /\ Len(told) = 1
                /\ told[1].to = r
      ]_vars

\* the changes of the tracks `types` that the step forwards upward
ForwardedChanges(events, types) ==
    SelectSeq(events, LAMBDA e : /\ e.kind = "notify"
                                 /\ e.type = "OnConnectionChanged"
                                 /\ e.data.Type \in types)

\* C18 as stated: the manager tears a connector down only when its Overall
\* track reports Failed; a change on the Ice or Signaling track, whatever
\* its state, an Ice state of Failed included, is forwarded upward and
\* leaves the connector registered and open.
C18_OnlyOverallFailedTearsDown ==
    [][ /\ \A i \in Insts :
            (~insts[i].closed /\ insts'[i].closed) =>
                (FailedStep("RTC") /\ lastAct'.inst = i)
        /\ ForwardedChanges(out', {"Ice", "Signal"}) # <<>> =>
            LET i == lastAct'.inst
            IN  /\ ~insts'[i].closed
                /\ connectors'[insts'[i].owner][insts'[i].remote] = i
      ]_vars

\* C18: the manager tears a connector down exactly when its Overall track or
\* its Ice track reports the state failed; a Signaling change, and a change
\* of the Overall or Ice track to any other state, is forwarded upward and
\* leaves the connector registered and open.
C18_AnyFailedTearsDown ==
    [][ /\ \A i \in Insts :
            (~insts[i].closed /\ insts'[i].closed) =>
                ((FailedStep("RTC") \/ FailedStep("Ice")) /\ lastAct'.inst = i)
        /\ (FailedStep("RTC") \/ FailedStep("Ice")) =>
            LET i == lastAct'.inst
            IN  /\ insts'[i].closed
                /\ connectors'[insts[i].owner][insts[i].remote] = 0
                /\ out' = << ForwardChange(insts[i],
                                ConnectionChange(lastAct'.msg.Type, "failed")) >>
        /\ \A e \in 1..Len(out') :
            (/\ out'[e].kind = "notify" /\ out'[e].type = "OnConnectionChanged"
             /\ out'[e].data.State # "failed") =>
                LET i == lastAct'.inst
                IN  /\ ~insts'[i].closed
                    /\ connectors'[insts'[i].owner][insts'[i].remote] = i
                    /\ out'[e].to = insts'[i].remote
      ]_vars

\* the Ice track of a registered connector reported failed and the manager
\* tore the connector down
C18_Witness ==
    /\ lastAct.name = "StateChanges"
    /\ lastAct.msg.Type = "Ice" /\ lastAct.msg.Data = "failed"
    /\ insts[lastAct.inst].closed
    /\ connectors[lastAct.me][lastAct.msg.FromId] = 0

\* the step is OnMessage of an envelope of another participant whose Type
\* is none of those OnMessage dispatches
UnknownTypeStep ==
    /\ lastAct'.name = "OnMessage"
    /\ lastAct'.msg.Type \notin KnownTypes
    /\ lastAct'.msg.FromId # lastAct'.me

\* C19: an envelope whose Type is not one of offer, accept, candidates,
\* location, discover is ignored without error: OnMessage returns normally,
\* nothing is dispatched to a connector, nothing is sent and nothing is
\* notified; the connector of the sender is unchanged, or is the one just
\* made for it (C12) with nothing dispatched.
C19_UnknownTypeIgnored ==
    [][ UnknownTypeStep =>
            LET me == lastAct'.me
                from == lastAct'.msg.FromId
            IN  /\ lastAct'.ok
                /\ out' = <<>>
                /\ \A k \in Insts : insts'[k] = insts[k]
                /\ connectors[me][from] # 0 =>
                        insts' = insts /\ connectors' = connectors
                /\ connectors[me][from] = 0 =>
                        /\ insts' = Append(insts, Created(me, from))
                        /\ connectors' = [connectors EXCEPT ![me][from] = Len(insts')]
      ]_vars

\* an envelope of an unknown type that carries an offer was handled while
\* the sender's connector had no description and nothing in flight
C19_Witness ==
    /\ lastAct.name = "OnMessage"
    /\ lastAct.msg.Type = "bye"
    /\ lastAct.msg.Data.type = "offer"
    /\ nEnv = 2 /\ Len(insts) = 1
    /\ connectors[lastAct.me][lastAct.msg.FromId] = 1
    /\ insts[1].ops = {}
    /\ insts[1].remoteDescription = NullDesc
    /\ out = <<>>

\* the connector a `candidates` envelope is dispatched to, as it is when
\* AddRemoteCandidates is called: the registered one, or the one just made
DispatchedTo(me, fromId) ==
    IF connectors[me][fromId] # 0 THEN insts[connectors[me][fromId]]
    ELSE Created(me, fromId)

\* C20: AddRemoteCandidates surfaces no error: the call completes, every
\* candidate the capability refuses (no remote description, or a candidate
\* it cannot parse) is appended to remoteCandidates in the order of the
\* call, every other candidate is applied, and nothing else changes.
C20_RefusedCandidatesBuffered ==
    [][ (/\ lastAct'.name = "OnMessage" /\ lastAct'.msg.Type = "candidates"
         /\ lastAct'.msg.FromId # lastAct'.me) =>
            LET c == DispatchedTo(lastAct'.me, lastAct'.msg.FromId)
                d == insts'[lastAct'.inst]
                batch == lastAct'.msg.Data
                Refused(x) == c.remoteDescription = NullDesc \/ ~x.ok
                Applied(x) == ~Refused(x)
            IN  /\ lastAct'.ok
                /\ out' = <<>>
                /\ d.remoteCandidates = c.remoteCandidates \o SelectSeq(batch, Refused)
                /\ d.added = c.added \o SelectSeq(batch, Applied)
                /\ d = [c EXCEPT !.remoteCandidates = d.remoteCandidates,
                                 !.added = d.added]
      ]_vars

\* a batch of a malformed and a well-formed candidate reached a connector
\* with a remote description: the first is buffered, the second applied
C20_Witness ==
    /\ lastAct.name = "OnMessage"
    /\ lastAct.msg.Type = "candidates"
    /\ lastAct.inst # NoInst
    /\ Len(lastAct.msg.Data) = 2
    /\ LET c == insts[lastAct.inst]
       IN  /\ c.remoteDescription # NullDesc
           /\ c.remoteCandidates = << lastAct.msg.Data[1] >>
           /\ c.added = << lastAct.msg.Data[2] >>

\* C21: the role of a connector never changes after construction, under any
\* operation or callback, and depends only on the remote id and the local
\* AttendeeId: two connectors a manager makes for the same remote id, one
\* after the teardown of the other, have the same role.
C21_RoleFixed ==
    [][ /\ \A i \in Insts :
            /\ insts'[i].shouldOffer = insts[i].shouldOffer
            /\ insts'[i].owner = insts[i].owner
            /\ insts'[i].remote = insts[i].remote
        /\ \A i \in 1..Len(insts'), j \in 1..Len(insts') :
            (insts'[i].owner = insts'[j].owner /\ insts'[i].remote = insts'[j].remote)
                => Role(insts'[i]) = Role(insts'[j])
      ]_vars

\* a connector that made a description and was torn down has been replaced
\* by a new connector for the same remote id, with the same role
C21_Witness ==
    /\ Len(insts) = 2
    /\ insts[1].closed /\ ~insts[2].closed
    /\ insts[1].owner = insts[2].owner /\ insts[1].remote = insts[2].remote
    /\ insts[1].created > 0
    /\ Role(insts[1]) = "Offerer" /\ Role(insts[2]) = "Offerer"

\* connector i offers, has its local offer applied and an AcceptAnswer in
\* flight
AnswerPending(i) ==
    /\ i \in Insts
    /\ insts[i].shouldOffer
    /\ insts[i].signalingState = "have-local-offer"
    /\ \E op \in insts[i].ops : op.kind = "AcceptAnswer"

\* the Signaling track of connector i is back to stable with the answer as
\* remote description, or the capability has rejected the answer
AnswerSettled(i) ==
    /\ i \in Insts
    /\ \/ /\ insts[i].signalingState = "stable"
          /\ insts[i].remoteDescription.type = "answer"
       \/ /\ lastAct.name = "ApplyRejects" /\ lastAct.inst = i
          /\ lastAct.msg.Type = "AcceptAnswer"

\* C22: on a connector that offers and has no description, negotiation-needed
\* starts an offer: the offer the capability creates becomes the local
\* description and is emitted as offer-ready; the answer of a later `accept`
\* envelope becomes the remote description, and once it is in flight the
\* Signaling track returns to stable, unless the capability rejects it.
C22_OfferThenAnswer ==
    /\ [][ /\ (/\ lastAct'.name = "NegotiationNeeded"
               /\ insts[lastAct'.inst].shouldOffer
               /\ insts[lastAct'.inst].localDescription = NullDesc
               /\ insts[lastAct'.inst].remoteDescription = NullDesc) =>
                    /\ lastAct'.ok
                    /\ \E op \in insts'[lastAct'.inst].ops : op.kind = "Negotiate"
           /\ (/\ lastAct'.name = "NegotiationCompletes"
               /\ insts[lastAct'.inst].shouldOffer
               /\ insts[lastAct'.inst].localDescription = NullDesc
               /\ insts[lastAct'.inst].remoteDescription = NullDesc) =>
                    LET i == lastAct'.inst
                        offer == LocalDesc("offer", insts[i].created + 1)
                    IN  /\ insts'[i].localDescription = offer
                        /\ insts'[i].signalingState = "have-local-offer"
                        /\ SendsOf(out', "offer") = << SendEv(offer, "offer", insts[i].remote) >>
           /\ (lastAct'.name = "SetRemoteResolves" /\ lastAct'.msg.Type = "AcceptAnswer") =>
                    LET i == lastAct'.inst
                    IN  /\ insts'[i].remoteDescription.type = "answer"
                        /\ insts'[i].remoteDescription \in
                                { op.desc : op \in insts[i].ops }
                        /\ insts'[i].signalingState = "stable"
         ]_vars
    /\ \A i \in 1..MaxInst : AnswerPending(i) ~> AnswerSettled(i)

\* the offer of a connector was answered: its local description is the
\* offer it made, its remote description the answer, its state stable
C22_Witness ==
    /\ lastAct.name = "SetRemoteResolves"
    /\ lastAct.msg.Type = "AcceptAnswer"
    /\ LET c == insts[lastAct.inst]
       IN  /\ c.shouldOffer
           /\ c.localDescription = LocalDesc("offer", 1)
           /\ c.remoteDescription.type = "answer"
           /\ c.signalingState = "stable"

\* C23: after StartLocalStream(stream) the tracks a connector sends are
\* exactly the tracks of that stream, and the senders it keeps track of are
\* those of that stream only: none of an earlier stream is kept, after any
\* sequence of StartLocalStream calls.
C23_OnlyCurrentStreamTracked ==
    \A me \in managers :
        \A i \in Registered(me) :
            /\ insts[i].senders = SeqToSet(Tracks(localStream[me]))
            /\ SeqToSet(insts[i].rtpSenders) = SeqToSet(Tracks(localStream[me]))
            /\ Len(insts[i].rtpSenders) = Len(Tracks(localStream[me]))

\* connector c with its Overall track at failed, as it is when the manager
\* calls Shutdown() on it
Failed(c) == [c EXCEPT !.connectionState = "failed"]

AllDelivered == \A m \in managers : inbox[m] = <<>>

\* every two started participants have a registered connector for each
\* other, one that offers and one that answers
FullMesh ==
    \A p \in joined, q \in joined :
        p # q =>
            /\ connectors[p][q] # 0
            /\ connectors[q][p] # 0
            /\ Role(insts[connectors[p][q]]) # Role(insts[connectors[q][p]])

RelayedType(name) ==
    CASE name = "EndOfCandidates" -> "candidates"
      [] name = "NegotiationCompletes" -> "offer"
      [] name = "AcceptOfferCompletes" -> "accept"
      [] OTHER -> "none"

\* everything the events send
Sends(events) == SelectSeq(events, LAMBDA e : e.kind = "send")

\* C26: every envelope a connector causes is addressed to the remote id
\* under which that connector is registered, and only to it, with the type
\* of the output: candidates-ready goes out as `candidates`, offer-ready as
\* `offer`, accepted-offer-ready as `accept`; the relay hands it to that
\* participant alone, and no other step sends an envelope of these types.
C26_OutputsToOwnRemote ==
    [][ /\ RelayedType(lastAct'.name) # "none" =>
            LET i == lastAct'.inst
                c == insts[i]
                sent == Sends(out')
            IN  /\ Len(sent) = 1
                /\ sent[1].type = RelayedType(lastAct'.name)
                /\ sent[1].to = c.remote
                /\ sent[1].to # Broadcast
                /\ connectors[c.owner][sent[1].to] = i
                /\ \A m \in managers :
                    inbox'[m] =
                        IF m = c.remote /\ m \in joined
                        THEN Append(inbox[m],
                                    Envelope(c.owner, sent[1].type, sent[1].data))
                        ELSE inbox[m]
        /\ RelayedType(lastAct'.name) = "none" =>
            \A e \in 1..Len(out') :
                out'[e].kind = "send" =>
                    out'[e].type \notin {"candidates", "offer", "accept"}
      ]_vars

\* a connector has made its offer and the relay holds it for the
\* participant the connector is registered for, and for nobody else
C26_Witness ==
    /\ lastAct.name = "NegotiationCompletes"
    /\ LET c == insts[lastAct.inst]
       IN  /\ c.remote \in joined
           /\ inbox[c.remote] =
                << Envelope(c.owner, "offer", c.localDescription) >>
           /\ inbox[c.owner] = <<>>

\* the candidates of a buffer the capability takes, in the buffer's order
Applicable(buffer) == SelectSeq(buffer, LAMBDA x : x.ok)

\* C27: one AcceptOffer runs in this order. First the offer is applied as
\* remote description: that step changes neither the local description nor
\* the candidate buffer and emits no envelope. Then the answer is made and
\* applied as local description, the buffered candidates are handed to the
\* capability in the order received, the buffer is emptied, and as the last
\* thing the answer just applied is emitted as accepted-offer-ready. An
\* AcceptOffer whose apply is rejected ends there: the local description
\* and the buffer stay as they were and nothing is emitted.
C27_AcceptOfferOrder ==
    [][ LET i == lastAct'.inst
            c == insts[i]
            d == insts'[i]
        IN  /\ lastAct'.name = "SetRemoteResolves" /\ lastAct'.msg.Type = "AcceptOffer" =>
                /\ \E op \in c.ops :
                    /\ op.kind = "AcceptOffer" /\ op.stage = "setRemote"
                    /\ d.remoteDescription = op.desc
                    /\ d.ops = (c.ops \ {op}) \cup {[op EXCEPT !.stage = "setLocal"]}
                /\ d.localDescription = c.localDescription
                /\ d.created = c.created
                /\ d.remoteCandidates = c.remoteCandidates
                /\ d.added = c.added
                /\ Sends(out') = <<>>
            /\ lastAct'.name = "AcceptOfferCompletes" =>
                /\ c.remoteDescription.type = "offer"
                /\ \E op \in c.ops :
                    /\ op.kind = "AcceptOffer" /\ op.stage = "setLocal"
                    /\ d.ops = c.ops \ {op}
                /\ d.remoteDescription = c.remoteDescription
                /\ d.localDescription = LocalDesc("answer", c.created + 1)
                /\ d.added = c.added \o Applicable(c.remoteCandidates)
                /\ d.remoteCandidates = <<>>
                /\ Len(out') >= 2
                /\ out'[2] = SendEv(d.localDescription, "accept", c.remote)
                /\ \A e \in 3..Len(out') : out'[e].kind = "error"
                /\ Len(Sends(out')) = 1
            /\ lastAct'.name = "ApplyRejects" /\ lastAct'.msg.Type = "AcceptOffer" =>
                /\ \E op \in c.ops :
                    /\ op.kind = "AcceptOffer"
                    /\ d.ops = c.ops \ {op}
                /\ d.localDescription = c.localDescription
                /\ d.remoteDescription = c.remoteDescription
                /\ d.created = c.created
                /\ d.remoteCandidates = c.remoteCandidates
                /\ d.added = c.added
                /\ \A e \in 1..Len(out') : out'[e].kind = "error"
      ]_vars

\* an AcceptOffer has run to its end on a connector that had buffered a
\* candidate before the offer came: the offer is the remote description, the
\* first answer is the local one, the candidate is added, the buffer is
\* empty and the answer is what the step sent
C27_Witness ==
    /\ lastAct.name = "AcceptOfferCompletes"
    /\ LET c == insts[lastAct.inst]
       IN  /\ c.remoteDescription.type = "offer"
           /\ c.localDescription = LocalDesc("answer", 1)
           /\ c.added # <<>>
           /\ c.added[1].id[1] < c.remoteDescription.n
           /\ c.remoteCandidates = <<>>
           /\ out[2] = SendEv(c.localDescription, "accept", c.remote)

\* C28: when the apply of the local offer in the negotiation-needed
\* reaction is rejected, no offer-ready is emitted and nothing else is, the
\* connector is left as it was but for the ended invocation (descriptions,
\* Overall, Signaling and Ice tracks, both candidate buffers, the pending
\* negotiation-needed flag), the registry is untouched, the rejection
\* reaches nobody, and no new negotiation is started.
C28_FailedOfferIsSilent ==
    [][ lastAct'.name = "ApplyRejects" /\ lastAct'.msg.Type = "Negotiate" =>
            LET i == lastAct'.inst
                c == insts[i]
            IN  /\ out' = <<>>
                /\ \E op \in c.ops :
                    /\ op.kind = "Negotiate"
                    /\ insts' = [insts EXCEPT ![i] = [c EXCEPT !.ops = @ \ {op}]]
                /\ connectors' = connectors
                /\ inbox' = inbox
      ]_vars

\* the first offer of an offering connector was rejected: the connector is
\* registered and open, has no description, is stable, and nothing is in
\* flight or pending on it
C28_Witness ==
    /\ lastAct.name = "ApplyRejects"
    /\ lastAct.msg.Type = "Negotiate"
    /\ LET c == insts[lastAct.inst]
       IN  /\ c.shouldOffer
           /\ Open(c.owner, c.remote) = {lastAct.inst}
           /\ connectors[c.owner][c.remote] = lastAct.inst
           /\ c.localDescription = NullDesc
           /\ c.signalingState = "stable"
           /\ c.ops = {}
           /\ ~c.negotiationNeeded
    /\ out = <<>>

\* the OnConnectionChanged notifications among the events of a step
Forwards(events) == NotificationsOf(events, "OnConnectionChanged")

\* C29: every transition the capability reports on the Overall, Signaling
\* or Ice track of a registered connector is forwarded as exactly one
\* OnConnectionChanged(remoteId, change), with the remote id the connector
\* is registered under, the track's dimension and the new state. A step in
\* which a track of a connector that stays open moves forwards that move
\* and nothing else; a reported Overall or Ice change, Failed included, is
\* forwarded by the step that handles it, and for Failed that step finds the
\* connector still registered and open and leaves it shut down and removed;
\* a step in which no track is reported to move forwards nothing.
C29_EveryChangeForwardedOnce ==
    [][ /\ \A i \in Insts :
            LET c == insts[i]
                d == insts'[i]
                moved == { T \in {"RTC", "Ice", "Signal"} : TrackOf(d, T) # TrackOf(c, T) }
            IN  (~d.closed /\ moved # {}) =>
                    /\ Cardinality(moved) = 1
                    /\ connectors[c.owner][c.remote] = i
                    /\ \E T \in moved :
                        Forwards(out') =
                            << NotifyEv("OnConnectionChanged", c.remote,
                                        ConnectionChange(T, TrackOf(d, T))) >>
        /\ lastAct'.name = "StateChanges" =>
            LET i == lastAct'.inst
                c == insts[i]
                change == ConnectionChange(lastAct'.msg.Type, lastAct'.msg.Data)
            IN  /\ TrackOf(c, change.Type) # change.State
                /\ ~c.closed /\ connectors[c.owner][c.remote] = i
                /\ out' = << NotifyEv("OnConnectionChanged", c.remote, change) >>
                /\ change.State = "failed" =>
                        insts'[i].closed /\ connectors'[c.owner][c.remote] = 0
        /\ Forwards(out') # <<>> =>
            /\ Len(Forwards(out')) = 1
            /\ lastAct'.inst \in Insts
            /\ LET c == insts[lastAct'.inst]
                   f == Forwards(out')[1]
               IN  /\ f.to = c.remote
                   /\ TrackOf(c, f.data.Type) # f.data.State
                   /\ f.data.State # "failed" =>
                        TrackOf(insts'[lastAct'.inst], f.data.Type) = f.data.State
      ]_vars

\* the Ice track of a registered connector was reported connected and the
\* step forwarded that change under the connector's remote id, while the
\* connector stays registered
C29_Witness ==
    /\ lastAct.name = "StateChanges"
    /\ lastAct.msg.Type = "Ice"
    /\ LET c == insts[lastAct.inst]
       IN  /\ connectors[c.owner][c.remote] = lastAct.inst
           /\ c.iceConnectionState = lastAct.msg.Data
           /\ out = << NotifyEv("OnConnectionChanged", c.remote,
                                ConnectionChange("Ice", c.iceConnectionState)) >>

\* the steps of the invocations in flight on a connector
NegotiationSteps ==
    {"SetRemoteResolves", "ApplyRejects", "AcceptOfferCompletes",
     "NegotiationNeeded", "NegotiationCompletes"}

\* C30: an envelope from remote id A, whatever its Type, changes nothing of
\* the connector registered for another remote id B: the instance (role,
\* descriptions, state tracks, candidate buffers, attached tracks, the
\* invocations in flight) and its registry entry are as before. Each step
\* of a negotiation with A likewise leaves every other connector and the
\* registry as they were and emits only events for A.
C30_OtherConnectorsUntouched ==
    [][ /\ (lastAct'.name = "OnMessage" /\ lastAct'.msg.FromId # lastAct'.me) =>
            LET me == lastAct'.me
                A == lastAct'.msg.FromId
            IN  /\ \A k \in Insts :
                    (insts[k].owner # me \/ insts[k].remote # A) => insts'[k] = insts[k]
                /\ \A B \in Ids \ {A} : connectors'[me][B] = connectors[me][B]
                /\ \A m \in managers \ {me} : connectors'[m] = connectors[m]
                /\ \A e \in 1..Len(out') : out'[e].to = A
        /\ lastAct'.name \in NegotiationSteps =>
            LET i == lastAct'.inst
            IN  /\ Len(insts') = Len(insts)
                /\ \A k \in Insts \ {i} : insts'[k] = insts[k]
                /\ connectors' = connectors
                /\ \A e \in 1..Len(out') : out'[e].to = insts[i].remote
      ]_vars

\* an offer from one remote id has just been dispatched while the connector
\* of another remote id has an offer of its own in flight
C30_Witness ==
    /\ lastAct.name = "OnMessage"
    /\ lastAct.msg.Type = "offer"
    /\ lastAct.inst # NoInst
    /\ insts[lastAct.inst].ops # {}
    /\ \E k \in Insts :
        /\ insts[k].owner = lastAct.me
        /\ insts[k].remote # lastAct.msg.FromId
        /\ connectors[lastAct.me][insts[k].remote] = k
        /\ \E op \in insts[k].ops : op.kind = "AcceptOffer"

\* the candidates in the buffer of connector c that came in an envelope
\* delivered after the envelope of its remote description, that is while the
\* apply of that description was in flight or after it
BufferedSinceDescription(c) ==
    SelectSeq(c.remoteCandidates, LAMBDA x : x.id[1] > c.remoteDescription.n)

\* C31: no candidate of a `candidates` envelope that arrives while the
\* description-apply of AcceptOffer or AcceptAnswer is in flight on the same
\* connector is left in remoteCandidates once the remote description is
\* applied and every operation of the connector has settled.
C31_NoneLeftAfterInFlightApply ==
    \A i \in Insts :
        (/\ ~insts[i].closed
         /\ insts[i].ops = {}
         /\ insts[i].remoteDescription # NullDesc)
            => BufferedSinceDescription(insts[i]) = <<>>

\* the events of a step that are rejections nothing handles, of `name`
ErrorsOf(events, name) ==
    SelectSeq(events, LAMBDA e : e.kind = "error" /\ e.data = name)

\* no candidate occurs twice in s
NoRepeat(s) == \A j \in 1..Len(s), k \in 1..Len(s) : s[j] = s[k] => j = k

\* C32: the flush hands every buffered candidate to the capability once,
\* whether or not an earlier one is rejected: those the capability takes
\* are applied in buffer order, those it rejects again are not put back, and
\* the buffer is empty afterwards. The rejections reach neither the caller
\* nor the manager: AcceptOffer completes and emits its answer, its promise
\* is not rejected, and the manager is notified of nothing but the change of
\* the Signaling track. No candidate is ever both applied and buffered, or
\* applied or buffered twice.
C32_FlushRetriesOnce ==
    [][ /\ lastAct'.name = "AcceptOfferCompletes" =>
            LET i == lastAct'.inst
                c == insts[i]
                d == insts'[i]
                taken == Applicable(c.remoteCandidates)
            IN  /\ d.added = c.added \o taken
                /\ d.remoteCandidates = <<>>
                /\ Len(ErrorsOf(out', "addIceCandidate")) =
                        Len(c.remoteCandidates) - Len(taken)
                /\ lastAct'.ok
                /\ ErrorsOf(out', "AcceptOffer") = <<>>
                /\ SendsOf(out', "accept") # <<>>
                /\ \A e \in 1..Len(out') :
                        out'[e].kind = "notify" =>
                            /\ out'[e].type = "OnConnectionChanged"
                            /\ out'[e].data.Type = "Signal"
        /\ \A i \in 1..Len(insts') :
                NoRepeat(insts'[i].added \o insts'[i].remoteCandidates)
      ]_vars

\* a flush has run on a buffer whose first candidate the capability rejects
\* again and whose second it takes: the second is applied, the buffer is
\* empty, and the step has sent the answer
C32_Witness ==
    /\ lastAct.name = "AcceptOfferCompletes"
    /\ lastAct.ok
    /\ Len(ErrorsOf(out, "addIceCandidate")) = 1
    /\ SendsOf(out, "accept") # <<>>
    /\ LET c == insts[lastAct.inst]
       IN  /\ c.added = << Candidate(<<1, 2>>, TRUE) >>
           /\ c.remoteCandidates = <<>>

\* the callback of the connector through which an event of a step goes out,
\* "none" for an event that is not the output of a connector
CallbackOf(ev) ==
    CASE ev.kind = "send" /\ ev.type = "candidates" -> "OnHasIceCandidates"
      [] ev.kind = "send" /\ ev.type = "offer" -> "OnHasOffer"
      [] ev.kind = "send" /\ ev.type = "accept" -> "OnAcceptedOffer"
      [] ev.kind = "notify" /\ ev.type = "OnConnectionChanged" -> "OnConnectionChanged"
      [] OTHER -> "none"

\* connector c has had its local stream attached or an inbound operation
\* dispatched to it
Engaged(c) ==
    \/ c.rtpSenders # <<>> \/ c.senders # {} \/ c.negotiationNeeded
    \/ c.ops # {} \/ c.added # <<>> \/ c.remoteCandidates # <<>>
    \/ c.remoteDescription # NullDesc \/ c.localDescription # NullDesc

\* C33: the manager assigns the output callbacks of a connector
\* (candidates-ready, offer-ready, accepted-offer-ready, state-changed)
\* before it attaches the local stream and before anything is dispatched to
\* it: every connector that has its stream attached or an operation
\* dispatched, the one a step has just made included, has them all, and
\* every output a step fires goes through a callback that was assigned on
\* the emitting connector before the step.
C33_WiredBeforeUse ==
    [][ /\ \A i \in 1..Len(insts') :
            Engaged(insts'[i]) =>
                {"OnHasIceCandidates", "OnHasOffer", "OnAcceptedOffer",
                 "OnConnectionChanged"} \subseteq insts'[i].wired
        /\ \A e \in 1..Len(out') :
            CallbackOf(out'[e]) # "none" =>
                /\ lastAct'.inst \in Insts
                /\ CallbackOf(out'[e]) \in insts[lastAct'.inst].wired
      ]_vars

\* a connector made by an offer has answered: its first outputs, the change
\* of the Signaling track and accepted-offer-ready, have gone through
\* callbacks assigned at its creation
C33_Witness ==
    /\ lastAct.name = "AcceptOfferCompletes"
    /\ LET c == insts[lastAct.inst]
       IN  /\ c.created = 1
           /\ Len(c.rtpSenders) = 2
           /\ {"OnAcceptedOffer", "OnConnectionChanged"} \subseteq c.wired
    /\ SendsOf(out, "accept") # <<>>
    /\ Forwards(out) # <<>>

\* the step is OnMessage for a `location` envelope of another participant
LocationStep ==
    /\ lastAct'.name = "OnMessage"
    /\ lastAct'.msg.Type = "location"
    /\ lastAct'.msg.FromId # lastAct'.me

\* C34: handling a `location` envelope emits exactly one
\* OnLocation(FromId, location) whose five fields are the payload's
\* cityName, countryName, countryCode, continentName and subdivisionName,
\* and nothing else: no envelope is sent, and no AcceptOffer, AcceptAnswer or
\* AddRemoteCandidates runs on any connector, the sender's connector being
\* the registered one as it was or the one the envelope has just made.
C34_LocationOnlyNotifies ==
    [][ LocationStep =>
            LET me == lastAct'.me
                from == lastAct'.msg.FromId
                data == lastAct'.msg.Data
                i == lastAct'.inst
            IN  /\ Len(out') = 1
                /\ out'[1].kind = "notify"
                /\ out'[1].type = "OnLocation"
                /\ out'[1].to = from
                /\ out'[1].data.CityName = data.cityName
                /\ out'[1].data.CountryName = data.countryName
                /\ out'[1].data.CountryCode = data.countryCode
                /\ out'[1].data.ContinentName = data.continentName
                /\ out'[1].data.SubdivisionName = data.subdivisionName
                /\ DOMAIN out'[1].data =
                        {"CityName", "CountryName", "CountryCode", "ContinentName",
                         "SubdivisionName"}
                /\ insts'[i] = DispatchedTo(me, from)
                /\ \A k \in Insts \ {i} : insts'[k] = insts[k]
                /\ inbox' = inbox
      ]_vars

\* a location has come from a participant whose connector has an offer in
\* flight: OnLocation was emitted for that participant and the operation in
\* flight is as it was
C34_Witness ==
    /\ lastAct.name = "OnMessage"
    /\ lastAct.msg.Type = "location"
    /\ lastAct.inst # NoInst
    /\ out = << NotifyEv("OnLocation", lastAct.msg.FromId,
                         [ CityName |-> "Leeds", CountryName |-> "United Kingdom",
                           CountryCode |-> "GB", ContinentName |-> "Europe",
                           SubdivisionName |-> "England" ]) >>
    /\ \E op \in insts[lastAct.inst].ops : op.kind = "AcceptOffer"

\* the instance registered now under the remote id of instance i, 0 if none
RegisteredFor(i) == connectors[insts[i].owner][insts[i].remote]

\* C35: a state-change notification of a connector that was torn down
\* affects no newer connector registered for the same remote id: the newer
\* connector is as it was, not shut down, and still registered; the
\* notification is forwarded and nothing else happens.
C35_StaleChangeSparesNewer ==
    [][ lastAct'.name = "StaleStateChange" =>
            LET i == lastAct'.inst
                k == RegisteredFor(i)
            IN  /\ k # i
                /\ k # 0 =>
                    /\ insts'[k] = insts[k]
                    /\ ~insts'[k].closed
                    /\ connectors'[insts[i].owner][insts[i].remote] = k
                /\ Len(Forwards(out')) = 1
                /\ Forwards(out')[1].to = insts[i].remote
      ]_vars

\* the connector of a remote id has failed and was torn down, the next
\* envelope of that id has made a newer one, and the failure of the other
\* track of the old connector has then reached its handler: the newer one
\* is registered and open
C35_Witness ==
    /\ lastAct.name = "StaleStateChange"
    /\ lastAct.msg.Data = "failed"
    /\ insts[lastAct.inst].closed
    /\ RegisteredFor(lastAct.inst) \notin {0, lastAct.inst}
    /\ ~insts[RegisteredFor(lastAct.inst)].closed

\* the step shuts instance i down
ShutsDown(i) == ~insts[i].closed /\ insts'[i].closed

\* the step removes the registry entry of instance i
Unregisters(i) == RegisteredFor(i) = i /\ connectors'[insts[i].owner][insts[i].remote] # i

\* C36: when the capability of one connector reports a failure more than
\* once, first on one track and then on the other, every notification is
\* handled without an error: the first shuts the connector down and removes
\* its entry, each later one is forwarded and changes nothing, so Shutdown
\* runs once, and only on a connector that is open and registered, and its
\* entry is removed once, in that same step.
C36_RepeatedFailureHandledOnce ==
    [][ /\ (lastAct'.name = "StaleStateChange" /\ lastAct'.msg.Data = "failed") =>
            /\ lastAct'.ok
            /\ \A e \in 1..Len(out') : out'[e].kind # "error"
            /\ Forwards(out') # <<>>
            /\ insts' = insts
            /\ connectors' = connectors
        /\ \A i \in Insts :
            /\ ShutsDown(i) =>
                /\ lastAct'.name = "StateChanges" /\ lastAct'.inst = i
                /\ lastAct'.msg.Data = "failed"
                /\ Unregisters(i)
            /\ Unregisters(i) => ShutsDown(i)
            /\ insts[i].closed => insts'[i].closed /\ RegisteredFor(i) # i
      ]_vars

\* the Ice track of a connector failed and the connector was torn down; the
\* failure of its Overall track has then reached the handler, with no
\* connector registered under its remote id, and was handled
C36_Witness ==
    /\ lastAct.name = "StaleStateChange"
    /\ lastAct.msg.Type = "RTC"
    /\ lastAct.msg.Data = "failed"
    /\ lastAct.ok
    /\ insts[lastAct.inst].closed
    /\ RegisteredFor(lastAct.inst) = 0
    /\ out = << NotifyEv("OnConnectionChanged", insts[lastAct.inst].remote,
                         ConnectionChange("RTC", "closed")) >>

\* instance i was torn down: the registry does not hold it any more
TornDown(i) == RegisteredFor(i) # i

\* C37: a connector that was torn down causes no further envelope: whatever
\* was in flight on it at teardown (an AcceptOffer, a negotiation, a
\* gathering of candidates) stays as it was, no step of it sends anything,
\* and every `accept`, `offer` or `candidates` envelope comes from a
\* connector that is open and registered.
C37_TornDownIsSilent ==
    [][ /\ \A i \in Insts :
            TornDown(i) =>
                /\ insts[i].closed
                /\ insts'[i].ops = insts[i].ops
                /\ insts'[i].localCandidates = insts[i].localCandidates
                /\ insts'[i].iceGatheringState = insts[i].iceGatheringState
                /\ insts'[i].created = insts[i].created
                /\ lastAct'.inst = i => Sends(out') = <<>>
        /\ (SendsOf(out', "accept") \o SendsOf(out', "offer")
                \o SendsOf(out', "candidates")) # <<>> =>
                /\ lastAct'.inst \in Insts
                /\ ~TornDown(lastAct'.inst)
                /\ ~insts[lastAct'.inst].closed
      ]_vars

\* a connector was torn down with an AcceptOffer in flight and its gathering
\* unfinished, and a later event of it was handled: the operation is still
\* in flight, the gathered candidate unsent, and nothing was sent
C37_Witness ==
    /\ lastAct.name = "StaleStateChange"
    /\ LET c == insts[lastAct.inst]
       IN  /\ c.closed
           /\ TornDown(lastAct.inst)
           /\ \E op \in c.ops : op.kind = "AcceptOffer"
           /\ c.iceGatheringState = "gathering"
    /\ Sends(out) = <<>>

\* connector c has applied no description yet
Fresh(c) == c.localDescription = NullDesc /\ c.remoteDescription = NullDesc

\* the step relays the first offer of instance i, made with no description
\* applied on it
FirstOfferBy(i) ==
    /\ lastAct'.name = "NegotiationCompletes"
    /\ lastAct'.inst = i
    /\ Fresh(insts[i])
    /\ SendsOf(out', "offer") # <<>>

\* C38: between two participants only one side makes the first offer of the
\* pair: a connector that relays an offer with no description applied on it
\* is the one whose role is to offer, and the connector its peer has for it
\* has the other role; so in no state are the two connectors of a pair both
\* in signaling state have-local-offer with no remote description applied
\* on either.
C38_OneSideOffersFirst ==
    [][ /\ \A i \in Insts :
            FirstOfferBy(i) =>
                LET p == insts[i].owner
                    q == insts[i].remote
                IN  /\ insts[i].shouldOffer
                    /\ (q \in managers /\ connectors[q][p] # 0) =>
                            ~insts[connectors[q][p]].shouldOffer
        /\ \A p \in managers, q \in managers :
            (p # q /\ connectors'[p][q] # 0 /\ connectors'[q][p] # 0) =>
                LET c == insts'[connectors'[p][q]]
                    d == insts'[connectors'[q][p]]
                IN  ~(/\ c.signalingState = "have-local-offer"
                      /\ d.signalingState = "have-local-offer"
                      /\ c.remoteDescription = NullDesc
                      /\ d.remoteDescription = NullDesc)
      ]_vars

\* both participants have a connector for each other; the offering side has
\* its first offer out and the other side, with the local stream attached
\* and negotiation-needed fired, has made none
C38_Witness ==
    /\ lastAct.name = "NegotiationNeeded"
    /\ ~lastAct.ok
    /\ LET c == insts[lastAct.inst]
       IN  /\ ~c.shouldOffer
           /\ Fresh(c)
           /\ c.signalingState = "stable"
           /\ c.remote \in managers
           /\ connectors[c.remote][c.owner] # 0
           /\ LET d == insts[connectors[c.remote][c.owner]]
              IN  /\ d.shouldOffer
                  /\ d.signalingState = "have-local-offer"
                  /\ d.remoteDescription = NullDesc

\* the step is OnMessage dispatching an offer, accept or candidates envelope
\* of another participant
DispatchStep ==
    /\ lastAct'.name = "OnMessage"
    /\ lastAct'.msg.FromId # lastAct'.me
    /\ lastAct'.msg.Type \in {"offer", "accept", "candidates"}

\* C39: whenever the manager dispatches an offer, accept or candidates
\* envelope, the registry holds an open connector for the envelope's FromId
\* and the dispatch acts on that connector. When attaching the local stream
\* in CreateConnector fails, the connector is not registered and the
\* exception leaves OnMessage: nothing is dispatched, no entry is read, and
\* the registry is as it was.
C39_DispatchFindsConnector ==
    [][ /\ DispatchStep =>
            LET me == lastAct'.me
                from == lastAct'.msg.FromId
                i == lastAct'.inst
            IN  /\ i # NoInst
                /\ connectors'[me][from] = i
                /\ ~insts'[i].closed
                /\ insts'[i].owner = me /\ insts'[i].remote = from
                /\ connectors[me][from] # 0 => connectors[me][from] = i
                /\ lastAct'.msg.Type = "offer" =>
                        \E op \in insts'[i].ops :
                            op.kind = "AcceptOffer" /\ op.desc = lastAct'.msg.Data
                /\ lastAct'.msg.Type = "accept" =>
                        \E op \in insts'[i].ops :
                            op.kind = "AcceptAnswer" /\ op.desc = lastAct'.msg.Data
                /\ lastAct'.msg.Type = "candidates" =>
                        Len(insts'[i].added) + Len(insts'[i].remoteCandidates) =
                            Len(lastAct'.msg.Data)
                            + (IF i \in Insts
                               THEN Len(insts[i].added) + Len(insts[i].remoteCandidates)
                               ELSE 0)
        /\ lastAct'.name = "CreateThrows" =>
            /\ connectors' = connectors
            /\ connectors[lastAct'.me][lastAct'.msg.FromId] = 0
            /\ \A k \in Insts : insts'[k] = insts[k]
            /\ LET left == insts'[lastAct'.inst]
               IN  /\ left.ops = {}
                   /\ left.added = <<>>
                   /\ left.remoteCandidates = <<>>
            /\ Sends(out') = <<>>
      ]_vars

\* the attach failed when the first envelope of a remote id made its
\* connector, which was left unregistered; the next envelope of that id, an
\* offer, was dispatched to a connector made and registered for it
C39_Witness ==
    /\ lastAct.name = "OnMessage"
    /\ lastAct.msg.Type = "offer"
    /\ lastAct.inst = 2
    /\ connectors[lastAct.me][lastAct.msg.FromId] = 2
    /\ insts[1].remote = lastAct.msg.FromId
    /\ ~insts[1].closed
    /\ \E op \in insts[2].ops : op.kind = "AcceptOffer"

=============================================================================
